---------------------------- MODULE Spec2Model ----------------------------
(***************************************************************************)
(* A model of mcp-hub: the connection supervisor (MCPConnection), the hub  *)
(* core (MCPHub) with its config hot-reload, the config store              *)
(* (ConfigManager), the service manager (ServiceManager) and the client    *)
(* manager (ClientManager).                                                *)
(*                                                                         *)
(* Several specifications share the module and its variables.  SpecConn    *)
(* drives one supervisor through its operations, with the asynchronous     *)
(* part of connect() and the transport callbacks interleaved.  SpecHub     *)
(* drives the hub: initialize() and config reloads applied by              *)
(* handleConfigUpdated(), over a small set of server names; SpecHubOps     *)
(* adds calls to the hub's endpoints and SpecShutdown its cleanup().       *)
(* SpecConfig drives the config store from its file and its watcher.       *)
(* SpecService drives the service manager's hub state and the client       *)
(* manager with its shutdown timer.  SpecResources reads resources of a    *)
(* supervisor with one discovered template, SpecResolver applies the       *)
(* placeholder resolver (EnvResolver) to small configs, and SpecFetch      *)
(* drives one supervisor with its updateCapabilities() calls in flight.    *)
(* SpecOverlap lets config reloads arrive while the hub is still applying  *)
(* an earlier one, and SpecWatch drives the debounce timer of the config   *)
(* watcher over discrete time.                                             *)
(***************************************************************************)
EXTENDS Naturals, Sequences, FiniteSets, TLC

VARIABLES
    conn,        \* SpecConn: the fields of one MCPConnection
    inflight,    \* SpecConn: connect() calls suspended at `await client.connect`
    lastOp,      \* the operation that made the last step, and how it ended
    config,      \* SpecHub: ConfigManager.config.mcpServers
    previousConfig, \* SpecHub: ConfigManager.#previousConfig.mcpServers
    connections, \* SpecHub: MCPHub.connections (name -> supervisor)
    hubPc,       \* where the hub's own task stands; "off" when there is no hub
    pending,     \* SpecHub: names whose startConfiguredServers task awaits connect
    todo,        \* SpecHub: the part of the diff handleConfigUpdated has not reached
    changes,     \* SpecHub: the diff of the last reload
    events,      \* SpecHub: events the hub emitted for the last reload, in order
    broadcasts,  \* SpecHub: what ServiceManager broadcast for them, in order
    results,     \* SpecHub: per name, how its operation in the current batch ended
    reloads,     \* SpecHub: config reloads so far
    calls,       \* SpecHubOps: calls made to the hub's endpoints so far
    svcState,    \* SpecService: ServiceManager.state
    svcTasks,    \* SpecService: initializeMCPHub / restartHub / shutdown calls in flight
    clients,     \* SpecService: ClientManager.clients
    shutdownTimer, \* SpecService: ClientManager.shutdownTimer is set
    autoShutdown,  \* SpecService: the --auto-shutdown option
    sigterm,     \* SpecService: SIGTERM has been emitted by the client manager
    resolverIn,  \* SpecResolver: what EnvResolver is asked to resolve
    resolverOut, \* SpecResolver: what it returned or raised
    fetches,     \* SpecFetch: updateCapabilities() calls awaiting their responses
    emitted,     \* SpecFetch: the calls that have settled, in order, each with
                 \* the event its notification handler emitted
    serverVersion, \* SpecFetch: how often the server has changed its tool list
    closing,     \* SpecFetch: disconnect() is suspended at one of its awaits
    supervisors, \* SpecOverlap: every MCPConnection the hub has created, by id
    appliers,    \* SpecOverlap: handleConfigUpdated() calls suspended at an await
    overlapped,  \* SpecOverlap: a reload arrived while an earlier one was being applied
    watch        \* SpecWatch: the config watcher's debounce timer, its pending
                 \* timeouts and reloads, and the burst of file events under way

vars == <<conn, inflight, lastOp, config, previousConfig, connections, hubPc,
          pending, todo, changes, events, broadcasts, results, reloads, calls,
          svcState, svcTasks, clients, shutdownTimer, autoShutdown, sigterm,
          resolverIn, resolverOut, fetches, emitted, serverVersion, closing,
          supervisors, appliers, overlapped, watch>>

connVars == <<conn, inflight>>
hubVars == <<config, previousConfig, connections, hubPc, pending, todo,
             changes, events, broadcasts, results, reloads>>
svcVars == <<svcState, svcTasks, clients, shutdownTimer, autoShutdown, sigterm>>
envVars == <<resolverIn, resolverOut>>
fetchVars == <<fetches, emitted, serverVersion, closing>>
overlapVars == <<supervisors, appliers, overlapped>>

-----------------------------------------------------------------------------
(* Bounds and small input sets *)

\* connect() calls that may be suspended on one supervisor at the same time
MaxInflight == 2

\* config reloads in one run of the hub
MaxReloads == 1

\* calls to the hub's endpoints in one run
MaxCalls == 1

\* values of the `command` field; the initial config uses the first
Commands == {"cmd1", "cmd2"}

\* `disabled` in a server config: the key may be missing
DisabledValues == {"absent", "false", "true"}

\* what the server advertises
ToolNames == {"t1", "t2"}
PromptNames == {"p1"}

\* uris and uri templates, as sequences of characters
UriXY == <<"t","p","l",":","/","/","x","/","y">>
UriXYZ == <<"t","p","l",":","/","/","x","/","y","/","z">>
UriFile == <<"f",":","a">>
TplAB == <<"t","p","l",":","/","/","{","a","}","/","{","b","}">>

ResourceUris == {UriFile}
TemplateSet == {TplAB}
RequestUris == {UriXY, UriXYZ, UriFile}

\* kinds of JavaScript value a caller may pass as `args`
ArgKinds == {"null", "undefined", "object", "array", "string", "emptyString",
             "number", "zero", "true", "false"}

\* error.message of a failure of the transport, the client or the server
FaultMsgs == {"ECONNREFUSED"}

NoError == "null"

-----------------------------------------------------------------------------
(* JavaScript semantics used by the code *)

\* truthiness of a `disabled` value
DisabledTruthy(d) == d = "true"

\* truthiness of an args value
JsTruthy(k) == k \notin {"null", "undefined", "emptyString", "zero", "false"}

IsArray(k) == k = "array"

\* typeof k === "object"
TypeofObject(k) == k \in {"null", "object", "array"}

\* error || null
OrNull(msg) == IF msg = "" THEN NoError ELSE msg

NoCaps == [tools |-> {}, resources |-> {}, resourceTemplates |-> {}, prompts |-> {}]

FullCaps == [tools |-> {"t1"}, resources |-> ResourceUris,
             resourceTemplates |-> TemplateSet, prompts |-> PromptNames]

\* the lists a server may answer with: nothing, everything, or one kind only
Capabilities ==
    { NoCaps, FullCaps,
      [NoCaps EXCEPT !.tools = {"t1"}],
      [NoCaps EXCEPT !.resources = ResourceUris],
      [NoCaps EXCEPT !.resourceTemplates = TemplateSet] }


-----------------------------------------------------------------------------
(* Resource templates: MCPConnection.readResource *)

\* t.uriTemplate.replace(/\{[^}]+\}/g, "[^/]+"): the position of the "}" that
\* closes a placeholder opening at i, or 0 when the text at i is no placeholder
PlaceholderEnd(tpl, i) ==
    IF tpl[i] # "{" THEN 0
    ELSE LET closers == {j \in (i + 1)..Len(tpl) : tpl[j] = "}"}
         IN IF closers = {} THEN 0
            ELSE LET j == CHOOSE k \in closers : \A m \in closers : k <= m
                 IN IF j > i + 1 THEN j ELSE 0

RECURSIVE TemplatePatternFrom(_, _)
TemplatePatternFrom(tpl, i) ==
    IF i > Len(tpl) THEN <<>>
    ELSE LET j == PlaceholderEnd(tpl, i)
         IN IF j # 0 THEN <<"[^/]+">> \o TemplatePatternFrom(tpl, j + 1)
            ELSE <<tpl[i]>> \o TemplatePatternFrom(tpl, i + 1)

TemplatePattern(tpl) == TemplatePatternFrom(tpl, 1)

\* new RegExp(`^${pattern}$`).test(uri), for patterns made of literal
\* characters, "." and "[^/]+"
RECURSIVE RegexTest(_, _)
RegexTest(p, u) ==
    IF p = <<>> THEN u = <<>>
    ELSE IF Head(p) = "[^/]+"
         THEN \E k \in 1..Len(u) :
                  /\ \A i \in 1..k : u[i] # "/"
                  /\ RegexTest(Tail(p), SubSeq(u, k + 1, Len(u)))
         ELSE /\ u # <<>>
              /\ (Head(p) = "." \/ Head(p) = Head(u))
              /\ RegexTest(Tail(p), Tail(u))

IsValidResource(c, uri) ==
    \/ uri \in c.resources
    \/ \E t \in c.resourceTemplates : RegexTest(TemplatePattern(t), uri)

-----------------------------------------------------------------------------
(* The supervisor: MCPConnection *)

ServerConfigs == [command : Commands, disabled : DisabledValues]

\* constructor(name, config, marketplace)
NewConnection(cfg) ==
    [ cfgCommand |-> cfg.command,
      cfgDisabled |-> cfg.disabled,
      client |-> FALSE,
      transport |-> FALSE,
      tools |-> {},
      resources |-> {},
      prompts |-> {},
      resourceTemplates |-> {},
      status |-> IF DisabledTruthy(cfg.disabled) THEN "disabled" ELSE "disconnected",
      error |-> NoError,
      startTime |-> FALSE,
      lastStarted |-> FALSE,
      disabled |-> DisabledTruthy(cfg.disabled),
      hooks |-> FALSE,    \* a transport with onerror/onclose installed is alive
      attempted |-> FALSE ]   \* connect() has been called on this supervisor

\* resetState(error) as it would be if it forgot the disabled config
ResetStateAlwaysDisconnected(c, error) ==
    [ c EXCEPT !.client = FALSE,
               !.transport = FALSE,
               !.tools = {},
               !.resources = {},
               !.prompts = {},
               !.resourceTemplates = {},
               !.status = "disconnected",
               !.error = OrNull(error),
               !.startTime = FALSE,
               !.lastStarted = FALSE,
               !.disabled = DisabledTruthy(c.cfgDisabled) ]

\* resetState(error)
ResetState(c, error) ==
    [ c EXCEPT !.client = FALSE,
               !.transport = FALSE,
               !.tools = {},
               !.resources = {},
               !.prompts = {},
               !.resourceTemplates = {},
               !.status = IF DisabledTruthy(c.cfgDisabled) THEN "disabled" ELSE "disconnected",
               !.error = OrNull(error),
               !.startTime = FALSE,
               !.lastStarted = FALSE,
               !.disabled = DisabledTruthy(c.cfgDisabled) ]

CloseFaults == {"none", "client", "transport"}

\* disconnect(error): closeFault says which close() rejects, if any.
\* Nothing catches a rejection here, so resetState is skipped when one occurs.
Disconnect(c, error, closeFault) ==
    IF c.client /\ closeFault = "client" THEN [conn |-> c, threw |-> TRUE]
    ELSE IF c.transport /\ closeFault = "transport" THEN [conn |-> c, threw |-> TRUE]
    ELSE [conn |-> ResetState(c, error), threw |-> FALSE]

ConnectFaults == {"none", "transport", "clientConnect", "handlers"}

Faults == [at : ConnectFaults, msg : FaultMsgs, close : CloseFaults]

NoFault == [at |-> "none", msg |-> "ECONNREFUSED", close |-> "none"]

WrapConnect(msg) == <<"Failed to connect to MCP server: ", msg>>

\* the catch block of connect(): disconnect(error.message), then throw ConnectionError
ConnectCatch(c, msg, closeFault) ==
    LET d == Disconnect(c, msg, closeFault)
    IN IF d.threw
       THEN [conn |-> d.conn, raised |-> "Error", msg |-> <<"close failed">>, suspended |-> FALSE]
       ELSE [conn |-> d.conn, raised |-> "ConnectionError", msg |-> WrapConnect(msg),
             suspended |-> FALSE]

\* connect() up to `await this.client.connect(this.transport)`
ConnectSync(c, f) ==
    IF c.disabled
    THEN [conn |-> [c EXCEPT !.status = "disabled", !.startTime = TRUE, !.lastStarted = TRUE,
                             !.attempted = TRUE],
          raised |-> "none", msg |-> <<>>, suspended |-> FALSE]
    ELSE LET c1 == [c EXCEPT !.error = NoError, !.status = "connecting",
                             !.lastStarted = TRUE, !.client = TRUE, !.attempted = TRUE]
         IN IF f.at = "transport"
            THEN ConnectCatch(c1, f.msg, f.close)
            ELSE [conn |-> [c1 EXCEPT !.transport = TRUE, !.hooks = TRUE],
                  raised |-> "none", msg |-> <<>>, suspended |-> TRUE]

\* updateCapabilities(): every request is caught, a missing list reads as empty
UpdateCapabilities(c, caps) ==
    IF ~c.client THEN c
    ELSE [c EXCEPT !.resourceTemplates = caps.resourceTemplates,
                   !.tools = caps.tools,
                   !.resources = caps.resources,
                   !.prompts = caps.prompts]

\* connect() from the point where `await this.client.connect` settles
ConnectAsync(c, f, caps) ==
    IF f.at = "clientConnect" THEN ConnectCatch(c, f.msg, f.close)
    ELSE LET c2 == UpdateCapabilities(c, caps)
         IN IF ~c2.client
            THEN \* setupNotificationHandlers reads this.client, which is null
                 ConnectCatch(c2, "TypeError", f.close)
            ELSE IF f.at = "handlers" THEN ConnectCatch(c2, f.msg, f.close)
            ELSE [conn |-> [c2 EXCEPT !.status = "connected", !.startTime = TRUE,
                                      !.error = NoError],
                  raised |-> "none", msg |-> <<>>, suspended |-> FALSE]

\* connect() run to its end without anything else in between
ConnectWhole(c, f, caps) ==
    LET s == ConnectSync(c, f)
    IN IF s.suspended THEN ConnectAsync(s.conn, f, caps) ELSE s

\* start() up to its first suspension
StartSync(c, f) ==
    LET c0 == IF c.disabled
              THEN [c EXCEPT !.disabled = FALSE, !.cfgDisabled = "false",
                             !.status = "disconnected"]
              ELSE c
    IN IF c0.status = "connected"
       THEN [conn |-> c0, raised |-> "none", msg |-> <<>>, suspended |-> FALSE]
       ELSE ConnectSync(c0, f)

StartWhole(c, f, caps) ==
    LET s == StartSync(c, f)
    IN IF s.suspended THEN ConnectAsync(s.conn, f, caps) ELSE s

\* stop(disable)
Stop(c, disable, closeFault) ==
    LET c0 == IF disable THEN [c EXCEPT !.disabled = TRUE, !.cfgDisabled = "true"] ELSE c
        d == Disconnect(c0, "", closeFault)
    IN [conn |-> d.conn, raised |-> IF d.threw THEN "Error" ELSE "none"]

\* transport.onerror
OnError(c, msg) ==
    [c EXCEPT !.error = msg, !.status = "disconnected", !.startTime = FALSE]

\* transport.onclose
OnClose(c) ==
    [c EXCEPT !.status = "disconnected", !.startTime = FALSE, !.hooks = FALSE]

\* the guards of callTool / getPrompt; "send" when the request goes out
ArgsRejected(args) == JsTruthy(args) /\ ~IsArray(args) /\ ~TypeofObject(args)

\* callTool as it would be if it looked at the status before the client
CallToolGuardStatusFirst(c, toolName, args) ==
    IF c.status # "connected" THEN "Server not connected"
    ELSE IF ~c.client THEN "Server not initialized"
    ELSE IF toolName \notin c.tools THEN "Tool not found"
    ELSE IF ArgsRejected(args) THEN "Invalid arguments"
    ELSE "send"

CallToolGuard(c, toolName, args) ==
    IF ~c.client THEN "Server not initialized"
    ELSE IF c.status # "connected" THEN "Server not connected"
    ELSE IF toolName \notin c.tools THEN "Tool not found"
    ELSE IF ArgsRejected(args) THEN "Invalid arguments"
    ELSE "send"

GetPromptGuard(c, promptName, args) ==
    IF ~c.client THEN "Server not initialized"
    ELSE IF c.status # "connected" THEN "Server not connected"
    ELSE IF promptName \notin c.prompts THEN "Prompt not found"
    ELSE IF ArgsRejected(args) THEN "Invalid arguments"
    ELSE "send"

ReadResourceGuard(c, uri) ==
    IF ~c.client THEN "Server not initialized"
    ELSE IF c.status # "connected" THEN "Server not connected"
    ELSE IF ~IsValidResource(c, uri) THEN "Resource not found"
    ELSE "send"

-----------------------------------------------------------------------------
(* SpecConn: one supervisor and its callers *)

\* the record of one step: the operation, its inputs, what it raised, and
\* whether it sent a request to the protocol client
Op(op, name, args, disable, raised, msg, sent) ==
    [op |-> op, name |-> name, args |-> args, disable |-> disable,
     raised |-> raised, msg |-> msg, sent |-> sent]

NoOp == Op("none", "-", "-", FALSE, "none", <<>>, FALSE)

\* the hub side at rest, for SpecConn
HubIdle ==
    /\ config = <<>>
    /\ previousConfig = <<>>
    /\ connections = <<>>
    /\ hubPc = "off"
    /\ pending = {}
    /\ todo = {}
    /\ changes = <<>>
    /\ events = <<>>
    /\ broadcasts = <<>>
    /\ results = <<>>
    /\ reloads = 0

\* the service manager and the client manager at rest
SvcIdle ==
    /\ calls = 0
    /\ svcState = "starting"
    /\ svcTasks = {}
    /\ clients = {}
    /\ shutdownTimer = FALSE
    /\ autoShutdown = FALSE
    /\ sigterm = FALSE

\* the config watcher before any file event: #debounceTimer is null, no
\* timeout is pending, no reload is reading the file
WatchIdle ==
    [ handle |-> FALSE,      \* #debounceTimer holds a timeout object
      timers |-> <<>>,       \* pending timeouts: time left, and whether
                             \* #debounceTimer is this timeout
      loading |-> 0,         \* timeout callbacks suspended at `await loadConfig()`
      sinceEvent |-> 0,      \* time since the last file event, up to the delay
      fileEvents |-> 0,      \* file events so far
      burstReloads |-> 0,    \* reloads begun since the first event of the burst
      early |-> FALSE,       \* an event of the burst came after one of its reloads
      clock |-> 0 ]

\* nothing asked of the resolver, no capability fetch under way
RestIdle ==
    /\ resolverIn = "none"
    /\ resolverOut = "none"
    /\ fetches = <<>>
    /\ emitted = <<>>
    /\ serverVersion = 0
    /\ closing = FALSE
    /\ supervisors = <<>>
    /\ appliers = <<>>
    /\ overlapped = FALSE
    /\ watch = WatchIdle

InitConn ==
    /\ \E d \in DisabledValues :
           conn = NewConnection([command |-> "cmd1", disabled |-> d])
    /\ inflight = 0
    /\ lastOp = NoOp
    /\ HubIdle
    /\ SvcIdle
    /\ RestIdle

\* the faults that can strike before, and after, connect() suspends
SyncFaults == {NoFault} \cup {f \in Faults : f.at = "transport"}
AsyncFaults == {f \in Faults : f.at \in {"none", "clientConnect", "handlers"}}

\* a caller invokes connect()
CConnect ==
    /\ inflight < MaxInflight
    /\ \E f \in SyncFaults :
           LET r == ConnectSync(conn, f)
           IN /\ conn' = r.conn
              /\ inflight' = IF r.suspended THEN inflight + 1 ELSE inflight
              /\ lastOp' = Op("connect", "-", "-", FALSE,
                              IF r.suspended THEN "pending" ELSE r.raised, r.msg, FALSE)
    /\ UNCHANGED hubVars
    /\ UNCHANGED <<calls, svcVars, envVars, fetchVars, overlapVars, watch>>

\* a caller invokes start()
CStart ==
    /\ inflight < MaxInflight
    /\ \E f \in SyncFaults :
           LET r == StartSync(conn, f)
           IN /\ conn' = r.conn
              /\ inflight' = IF r.suspended THEN inflight + 1 ELSE inflight
              /\ lastOp' = Op("start", "-", "-", FALSE,
                              IF r.suspended THEN "pending" ELSE r.raised, r.msg, FALSE)
    /\ UNCHANGED hubVars
    /\ UNCHANGED <<calls, svcVars, envVars, fetchVars, overlapVars, watch>>

\* `await this.client.connect(this.transport)` settles and connect() runs on
CConnectFinish ==
    /\ inflight > 0
    /\ \E f \in AsyncFaults, caps \in Capabilities :
           LET r == ConnectAsync(conn, f, caps)
           IN /\ conn' = r.conn
              /\ lastOp' = Op("connectReturn", "-", "-", FALSE, r.raised, r.msg, FALSE)
    /\ inflight' = inflight - 1
    /\ UNCHANGED hubVars
    /\ UNCHANGED <<calls, svcVars, envVars, fetchVars, overlapVars, watch>>

\* a caller invokes stop(disable)
CStop ==
    /\ \E disable \in BOOLEAN, cf \in CloseFaults :
           LET r == Stop(conn, disable, cf)
           IN /\ conn' = r.conn
              /\ lastOp' = Op("stop", "-", "-", disable, r.raised, <<>>, FALSE)
    /\ UNCHANGED <<inflight, hubVars>>
    /\ UNCHANGED <<calls, svcVars, envVars, fetchVars, overlapVars, watch>>

\* refresh, or a list-changed notification: updateCapabilities()
CUpdateCapabilities ==
    /\ \E caps \in Capabilities :
           /\ conn' = UpdateCapabilities(conn, caps)
           /\ lastOp' = Op("updateCapabilities", "-", "-", FALSE, "none", <<>>, conn.client)
    /\ UNCHANGED <<inflight, hubVars>>
    /\ UNCHANGED <<calls, svcVars, envVars, fetchVars, overlapVars, watch>>

\* the transport reports an error
COnError ==
    /\ conn.hooks
    /\ \E m \in FaultMsgs : conn' = OnError(conn, m)
    /\ lastOp' = Op("onerror", "-", "-", FALSE, "none", <<>>, FALSE)
    /\ UNCHANGED <<inflight, hubVars>>
    /\ UNCHANGED <<calls, svcVars, envVars, fetchVars, overlapVars, watch>>

\* the transport reports that it closed
COnClose ==
    /\ conn.hooks
    /\ conn' = OnClose(conn)
    /\ lastOp' = Op("onclose", "-", "-", FALSE, "none", <<>>, FALSE)
    /\ UNCHANGED <<inflight, hubVars>>
    /\ UNCHANGED <<calls, svcVars, envVars, fetchVars, overlapVars, watch>>

\* what a dispatch does once its guard is evaluated: the guard's error, or the
\* request, whose failure is wrapped
Dispatched(op, name, args, guard, failCode, fails) ==
    IF guard # "send" THEN Op(op, name, args, FALSE, guard, <<>>, FALSE)
    ELSE Op(op, name, args, FALSE, IF fails THEN failCode ELSE "none", <<>>, TRUE)

CCallTool ==
    /\ \E toolName \in ToolNames, args \in ArgKinds :
         \E fails \in IF CallToolGuard(conn, toolName, args) = "send" THEN BOOLEAN ELSE {FALSE} :
           lastOp' = Dispatched("callTool", toolName, args,
                                CallToolGuard(conn, toolName, args),
                                "TOOL_EXECUTION_ERROR", fails)
    /\ UNCHANGED <<connVars, hubVars>>
    /\ UNCHANGED <<calls, svcVars, envVars, fetchVars, overlapVars, watch>>

CGetPrompt ==
    /\ \E promptName \in PromptNames, args \in ArgKinds :
         \E fails \in IF GetPromptGuard(conn, promptName, args) = "send" THEN BOOLEAN ELSE {FALSE} :
           lastOp' = Dispatched("getPrompt", promptName, args,
                                GetPromptGuard(conn, promptName, args),
                                "PROMPT_EXECUTION_ERROR", fails)
    /\ UNCHANGED <<connVars, hubVars>>
    /\ UNCHANGED <<calls, svcVars, envVars, fetchVars, overlapVars, watch>>

CReadResource ==
    /\ \E uri \in RequestUris :
         \E fails \in IF ReadResourceGuard(conn, uri) = "send" THEN BOOLEAN ELSE {FALSE} :
           lastOp' = Dispatched("readResource", uri, "-",
                                ReadResourceGuard(conn, uri),
                                "RESOURCE_READ_ERROR", fails)
    /\ UNCHANGED <<connVars, hubVars>>
    /\ UNCHANGED <<calls, svcVars, envVars, fetchVars, overlapVars, watch>>

NextConn ==
    \/ CConnect
    \/ CStart
    \/ CConnectFinish
    \/ CStop
    \/ CUpdateCapabilities
    \/ COnError
    \/ COnClose
    \/ CCallTool
    \/ CGetPrompt
    \/ CReadResource

SpecConn == InitConn /\ [][NextConn]_vars

-----------------------------------------------------------------------------
(* SpecResources: readResource on a connected supervisor, over many uris *)

\* longest uri a caller asks for
MaxUriLen == 3

UriAlphabet == {"a", "b", ".", "/"}

\* every uri over the alphabet, up to the longest
UriInputs == UNION {[1..n -> UriAlphabet] : n \in 0..MaxUriLen}

\* uri templates a server may advertise
TemplateInputs ==
    { <<"{", "x", "}">>,
      <<"a", "/", "{", "x", "}">>,
      <<"{", "x", "}", "/", "{", "y", "}">>,
      <<"a", ".", "{", "x", "}">>,
      <<"{", "x", "}", ".", "a">>,
      <<"a", ".", "b">>,
      <<"a", "/", "b">> }

\* a supervisor that has connected to a server advertising one template
InitResources ==
    /\ \E tpl \in TemplateInputs :
         conn = ConnectWhole(NewConnection([command |-> "cmd1", disabled |-> "absent"]),
                             NoFault,
                             [NoCaps EXCEPT !.resourceTemplates = {tpl}]).conn
    /\ inflight = 0
    /\ lastOp = NoOp
    /\ HubIdle
    /\ SvcIdle
    /\ RestIdle

\* a caller invokes readResource(uri)
RReadResource ==
    /\ \E uri \in UriInputs :
         \E fails \in IF ReadResourceGuard(conn, uri) = "send" THEN BOOLEAN ELSE {FALSE} :
           lastOp' = Dispatched("readResource", uri, "-",
                                ReadResourceGuard(conn, uri),
                                "RESOURCE_READ_ERROR", fails)
    /\ UNCHANGED <<connVars, hubVars>>
    /\ UNCHANGED <<calls, svcVars, envVars, fetchVars, overlapVars, watch>>

NextResources == RReadResource

SpecResources == InitResources /\ [][NextResources]_vars

-----------------------------------------------------------------------------
(* The config store: ConfigManager *)

\* server names, in the order their keys appear in the config file
NameOrder == <<"a", "b">>

Names == {NameOrder[i] : i \in 1..Len(NameOrder)}

Rank(n) == CHOOSE i \in 1..Len(NameOrder) : NameOrder[i] = n

\* the first name of a non-empty set, in key order
First(S) == CHOOSE n \in S : \A m \in S : Rank(n) <= Rank(m)

\* mcpServers: a mapping from some of the names to server configs
ConfigsOver(cfgs) == UNION {[D -> cfgs] : D \in SUBSET Names}

\* the configs a file may hold at startup, and after an edit
InitialConfigs == ConfigsOver({c \in ServerConfigs : c.command = "cmd1"})
AllConfigs == ConfigsOver(ServerConfigs)

EmptyMap == [n \in {} |-> NoCaps]

\* #KEY_FIELDS
KeyFields == {"command", "args", "env", "disabled", "url", "headers", "dev", "name"}

\* the key fields #diffConfigs compares with deepEqual
DeepFields == {"args", "env", "headers", "dev"}

\* a structured value (an array) of a config: whether the key is there, and
\* what the array holds
NoArray == [present |-> FALSE, items |-> <<>>]
ArrayOf(items) == [present |-> TRUE, items |-> items]

\* cfg.hasOwnProperty(field): a key the file leaves out is carried as "absent"
\* (as NoArray for a structured one), or not carried by the record at all
HasOwn(cfg, field) ==
    /\ field \in DOMAIN cfg
    /\ IF field \in DeepFields THEN cfg[field].present ELSE cfg[field] # "absent"

FieldValue(cfg, field) == cfg[field]

\* fast-deep-equal on two arrays: the same elements in the same order
DeepEqual(x, y) == x.items = y.items

\* x !== y on two arrays: the previous snapshot is a JSON clone, so the two are
\* never the same object
StrictNotEqualArrays(x, y) == TRUE

\* the filter of #diffConfigs as it would be with !== for every key field
ModifiedFieldsStrict(old, new) ==
    {field \in KeyFields :
        IF ~HasOwn(old, field) /\ ~HasOwn(new, field) THEN FALSE
        ELSE IF ~HasOwn(old, field) \/ ~HasOwn(new, field) THEN TRUE
        ELSE IF field \in DeepFields
             THEN StrictNotEqualArrays(FieldValue(old, field), FieldValue(new, field))
             ELSE FieldValue(old, field) # FieldValue(new, field)}

\* the filter of #diffConfigs over #KEY_FIELDS
ModifiedFields(old, new) ==
    {field \in KeyFields :
        IF ~HasOwn(old, field) /\ ~HasOwn(new, field) THEN FALSE
        ELSE IF ~HasOwn(old, field) \/ ~HasOwn(new, field) THEN TRUE
        ELSE IF field \in DeepFields
             THEN ~DeepEqual(FieldValue(old, field), FieldValue(new, field))
             ELSE FieldValue(old, field) # FieldValue(new, field)}

\* names every object inherits from Object.prototype: servers[name] reads the
\* inherited function for them, whether or not the map has such an entry
InheritedNames == {"constructor"}

\* servers[name] is truthy
HasEntry(servers, n) == n \in DOMAIN servers \/ n \in InheritedNames

\* #diffConfigs: the modifiedFields of a name of the new map for which
\* oldServers[name] is truthy; an inherited function has none of the key fields
ModifiedFieldsOf(oldServers, newServers, n) ==
    IF n \in DOMAIN oldServers THEN ModifiedFields(oldServers[n], newServers[n])
    ELSE {field \in KeyFields : HasOwn(newServers[n], field)}

\* #diffConfigs(oldServers, newServers); the lists are kept as sets and read
\* in key order
DiffConfigs(oldServers, newServers) ==
    [ removed |-> {n \in DOMAIN oldServers : ~HasEntry(newServers, n)},
      added |-> {n \in DOMAIN newServers : ~HasEntry(oldServers, n)},
      modified |-> {n \in DOMAIN newServers :
                        /\ HasEntry(oldServers, n)
                        /\ ModifiedFieldsOf(oldServers, newServers, n) # {}},
      unchanged |-> {n \in DOMAIN newServers :
                        /\ HasEntry(oldServers, n)
                        /\ ModifiedFieldsOf(oldServers, newServers, n) = {}},
      details |-> [n \in {m \in DOMAIN newServers :
                              /\ HasEntry(oldServers, m)
                              /\ ModifiedFieldsOf(oldServers, newServers, m) # {}}
                      |-> ModifiedFieldsOf(oldServers, newServers, n)] ]

NoChanges == [removed |-> {}, added |-> {}, modified |-> {}, unchanged |-> {},
              details |-> EmptyMap]

\* the server entries a config file may hold for one name
FileServers ==
    [ command : {"absent", "", "cmd1", "cmd2"},
      url : {"absent", "http://h", "bad"},
      args : {NoArray, ArrayOf(<<>>), ArrayOf(<<"x">>)},
      disabled : DisabledValues,
      description : {"absent", "d1"} ]

\* the names the files of SpecConfig give a server entry to
FileNames == {"a"}

\* what reading the config file can give: a read error, text that is not
\* JSON, a document without mcpServers, or a document with server entries
ConfigFiles ==
    [kind : {"ENOENT", "EACCES", "SyntaxError", "noServers"}, servers : {EmptyMap}]
    \cup [kind : {"doc"}, servers : UNION {[D -> FileServers] : D \in SUBSET FileNames}]

\* loadConfig: the check of one server entry; "ok" or the ConfigError it throws
ValidateServer(server) ==
    IF server.command # "absent" /\ server.url # "absent" THEN "cannot mix stdio and sse fields"
    ELSE IF server.command # "absent"
    THEN IF server.command = "" THEN "missing command value" ELSE "ok"
    ELSE IF server.url # "absent"
    THEN IF server.url = "bad" THEN "invalid url" ELSE "ok"
    ELSE "must include either command or url"

\* loadConfig: what validation leaves of a valid entry (args defaults to [] for
\* a stdio server)
NormalizeServer(server) ==
    IF server.command # "absent" /\ ~server.args.present
    THEN [server EXCEPT !.args = ArrayOf(<<>>)]
    ELSE server

\* the store as loadConfig takes and returns it
StoreState(cfg, prev) == [config |-> cfg, previousConfig |-> prev]

\* what loadConfig raises for a file, "none" when it accepts it
LoadError(file) ==
    IF file.kind = "ENOENT" THEN "Config file not found"
    ELSE IF file.kind = "EACCES" THEN "CONFIG_READ_ERROR"
    ELSE IF file.kind = "SyntaxError" THEN "Invalid JSON in config file"
    ELSE IF file.kind = "noServers" THEN "Missing or invalid mcpServers configuration"
    ELSE LET bad == {n \in DOMAIN file.servers : ValidateServer(file.servers[n]) # "ok"}
         IN IF bad = {} THEN "none" ELSE ValidateServer(file.servers[First(bad)])

\* loadConfig() as it would be if it stored the parsed config before checking it
LoadConfigStoresFirst(st, file) ==
    IF file.kind # "doc"
    THEN [st |-> st, raised |-> LoadError(file), changes |-> NoChanges]
    ELSE LET new == [n \in DOMAIN file.servers |-> NormalizeServer(file.servers[n])]
         IN IF LoadError(file) # "none"
            THEN [st |-> StoreState(new, new), raised |-> LoadError(file), changes |-> NoChanges]
            ELSE [st |-> StoreState(new, new), raised |-> "none",
                  changes |-> DiffConfigs(st.previousConfig, new)]

\* loadConfig(): read, parse, validate, diff against the previous snapshot, store
LoadConfig(st, file) ==
    IF LoadError(file) # "none"
    THEN [st |-> st, raised |-> LoadError(file), changes |-> NoChanges]
    ELSE LET new == [n \in DOMAIN file.servers |-> NormalizeServer(file.servers[n])]
         IN [st |-> StoreState(new, new), raised |-> "none",
             changes |-> DiffConfigs(st.previousConfig, new)]

-----------------------------------------------------------------------------
(* The hub core: MCPHub *)

MapSet(f, n, v) == [m \in DOMAIN f \cup {n} |-> IF m = n THEN v ELSE f[m]]

MapDelete(f, n) == [m \in DOMAIN f \ {n} |-> f[m]]

\* the hub's mutable state, as its operations take and return it
HubState(cfg, prev, conns) == [config |-> cfg, previousConfig |-> prev, connections |-> conns]

\* the faults a hub operation can meet, and the lists a server answers with
HubFaults == {f \in Faults : f.at \in {"none", "clientConnect"} /\ f.close # "transport"}
HubCaps == {FullCaps}

\* connectServer(name, config)
ConnectServer(h, n, cfg, f, caps) ==
    LET r == ConnectWhole(NewConnection(cfg), f, caps)
    IN [h |-> [h EXCEPT !.connections = MapSet(h.connections, n, r.conn)],
        raised |-> r.raised]

\* disconnectServer(name): an error of disconnect() is logged, not thrown
DisconnectServer(h, n, closeFault) ==
    IF n \in DOMAIN h.connections
    THEN [h EXCEPT !.connections[n] = Disconnect(h.connections[n], "", closeFault).conn]
    ELSE h

\* startServer(name)
StartServer(h, n, f, caps) ==
    IF n \notin DOMAIN h.config THEN [h |-> h, raised |-> "Server not found"]
    ELSE IF n \notin DOMAIN h.connections
    THEN [h |-> h, raised |-> "Server connection not found"]
    ELSE LET cfg == IF DisabledTruthy(h.config[n].disabled)
                    THEN [h.config EXCEPT ![n].disabled = "false"]
                    ELSE h.config
             prev == IF DisabledTruthy(h.config[n].disabled) THEN cfg ELSE h.previousConfig
             r == StartWhole(h.connections[n], f, caps)
         IN [h |-> HubState(cfg, prev, [h.connections EXCEPT ![n] = r.conn]),
             raised |-> r.raised]

\* stopServer(name, disable)
StopServer(h, n, disable, closeFault) ==
    IF n \notin DOMAIN h.config THEN [h |-> h, raised |-> "Server not found"]
    ELSE LET cfg == IF disable THEN [h.config EXCEPT ![n].disabled = "true"] ELSE h.config
             prev == IF disable THEN cfg ELSE h.previousConfig
         IN IF n \notin DOMAIN h.connections
            THEN [h |-> HubState(cfg, prev, h.connections),
                  raised |-> "Server connection not found"]
            ELSE LET r == Stop(h.connections[n], disable, closeFault)
                 IN [h |-> HubState(cfg, prev, [h.connections EXCEPT ![n] = r.conn]),
                     raised |-> r.raised]

\* serverConfig.disabled !== connection?.disabled
DisabledDiffers(h, n) ==
    LET wanted == IF h.config[n].disabled = "absent" THEN "undefined"
                  ELSE h.config[n].disabled
        actual == IF n \notin DOMAIN h.connections THEN "undefined"
                  ELSE IF h.connections[n].disabled THEN "true" ELSE "false"
    IN wanted # actual

\* handleConfigUpdated: the body of the loop over changes.added
ApplyAdded(h, n, f, caps) == ConnectServer(h, n, h.config[n], f, caps)

\* handleConfigUpdated: the body of the loop over changes.removed
ApplyRemoved(h, n, f) ==
    LET d == DisconnectServer(h, n, f.close)
    IN [h |-> [d EXCEPT !.connections = MapDelete(d.connections, n)], raised |-> "none"]

\* handleConfigUpdated: the body of the loop over changes.modified
ApplyModified(h, n, f, caps) ==
    IF DisabledDiffers(h, n)
    THEN IF DisabledTruthy(h.config[n].disabled)
         THEN StopServer(h, n, TRUE, f.close)
         ELSE StartServer(h, n, f, caps)
    ELSE ConnectServer(DisconnectServer(h, n, "none"), n, h.config[n], f, caps)

\* handleConfigUpdated as it would be with its first two emits exchanged
EmittedOnChangeSwapped(isSignificant) ==
    IF isSignificant THEN <<"importantConfigChanged", "configChangeDetected">>
    ELSE <<"configChangeDetected">>

\* handleConfigUpdated as it would be without its early return
EmittedOnChangeAlways(isSignificant) ==
    <<"configChangeDetected", "importantConfigChanged">>

\* the events handleConfigUpdated emits before it touches a server
EmittedOnChange(isSignificant) ==
    IF isSignificant THEN <<"configChangeDetected", "importantConfigChanged">>
    ELSE <<"configChangeDetected">>

IsSignificant(ch) == ch.added # {} \/ ch.removed # {} \/ ch.modified # {}

\* what handleConfigUpdated does when one of its awaited operations settles:
\* go on, or (the single try/catch around the three loops) give up
AfterOperation(raised) == IF raised = "none" THEN "continue" ELSE "abort"

\* ServiceManager.initializeMCPHub: the hub's events become broadcasts
SubscriptionType(ev) ==
    IF ev = "configChangeDetected" THEN "CONFIG_CHANGED"
    ELSE IF ev = "importantConfigChanged" THEN "SERVERS_UPDATING"
    ELSE "SERVERS_UPDATED"

RECURSIVE Broadcast(_)
Broadcast(evs) ==
    IF evs = <<>> THEN <<>> ELSE <<SubscriptionType(Head(evs))>> \o Broadcast(Tail(evs))

\* startConfiguredServers as it would be if a task let its error through
StartTaskResultRethrow(raised) == IF raised = "none" THEN "success" ELSE "rejected"

\* startConfiguredServers: what the task of one server returns
StartTaskResult(raised) == IF raised = "none" THEN "success" ELSE "error"

-----------------------------------------------------------------------------
(* SpecHub: the hub, its config file and its callers *)

InitHub ==
    /\ conn = NewConnection([command |-> "cmd1", disabled |-> "absent"])
    /\ inflight = 0
    /\ lastOp = NoOp
    /\ config = EmptyMap
    /\ previousConfig = EmptyMap
    /\ connections = EmptyMap
    /\ hubPc = "off"
    /\ pending = {}
    /\ todo = NoChanges
    /\ changes = NoChanges
    /\ events = <<>>
    /\ broadcasts = <<>>
    /\ results = EmptyMap
    /\ reloads = 0
    /\ SvcIdle
    /\ RestIdle

HubOp(op, name, kind, disable, raised) == Op(op, name, kind, disable, raised, <<>>, FALSE)

\* initialize(): loadConfig, then startConfiguredServers up to the point where
\* every server's task has created its supervisor, put it in the map and
\* begun to connect
HInitialize ==
    /\ hubPc = "off"
    /\ \E A \in InitialConfigs :
           /\ config' = A
           /\ previousConfig' = A
           /\ connections' = [n \in DOMAIN A |-> NewConnection(A[n])]
           /\ pending' = DOMAIN A
    /\ hubPc' = "init"
    /\ results' = EmptyMap
    /\ lastOp' = HubOp("initialize", "-", "-", FALSE, "pending")
    /\ UNCHANGED <<connVars, todo, changes, events, broadcasts, reloads>>
    /\ UNCHANGED <<calls, svcVars, envVars, fetchVars, overlapVars, watch>>

\* the task of one server in startConfiguredServers settles
HInitTask ==
    /\ hubPc = "init"
    /\ \E n \in pending, f \in HubFaults, caps \in HubCaps :
           LET r == ConnectWhole(connections[n], f, caps)
               outcome == StartTaskResult(r.raised)
           IN /\ connections' = [connections EXCEPT ![n] = r.conn]
              /\ pending' = pending \ {n}
              /\ results' = MapSet(results, n, outcome)
              /\ hubPc' = IF outcome \in {"success", "error"} THEN "init" ELSE "failed"
              /\ lastOp' = HubOp("initTask", n, "-", FALSE, r.raised)
    /\ UNCHANGED <<connVars, config, previousConfig, todo, changes, events, broadcasts,
                   reloads>>
    /\ UNCHANGED <<calls, svcVars, envVars, fetchVars, overlapVars, watch>>

\* Promise.all(startPromises) resolves and initialize() returns
HInitDone ==
    /\ hubPc = "init"
    /\ pending = {}
    /\ hubPc' = "ready"
    /\ lastOp' = HubOp("initialize", "-", "-", FALSE, "none")
    /\ UNCHANGED <<connVars, config, previousConfig, connections, pending, todo,
                   changes, events, broadcasts, results, reloads>>
    /\ UNCHANGED <<calls, svcVars, envVars, fetchVars, overlapVars, watch>>

\* the config file changes: loadConfig() diffs it against the previous
\* snapshot, configChanged is emitted, and handleConfigUpdated runs up to its
\* first await
HConfigChanged ==
    /\ hubPc = "ready"
    /\ reloads < MaxReloads
    /\ reloads' = reloads + 1
    /\ \E B \in AllConfigs :
           LET ch == DiffConfigs(previousConfig, B)
               evs == EmittedOnChange(IsSignificant(ch))
           IN /\ config' = B
              /\ previousConfig' = B
              /\ changes' = ch
              /\ events' = evs
              /\ broadcasts' = Broadcast(evs)
              /\ todo' = IF IsSignificant(ch) THEN ch ELSE NoChanges
              /\ hubPc' = IF IsSignificant(ch) THEN "applying" ELSE "ready"
    /\ results' = EmptyMap
    /\ lastOp' = HubOp("configChanged", "-", "-", FALSE, "none")
    /\ UNCHANGED <<connVars, connections, pending>>
    /\ UNCHANGED <<calls, svcVars, envVars, fetchVars, overlapVars, watch>>

\* the list handleConfigUpdated is working through
CurrentList == IF todo.added # {} THEN "added"
               ELSE IF todo.removed # {} THEN "removed" ELSE "modified"

\* handleConfigUpdated: the operation on the next name of the diff settles
HApplyStep ==
    /\ hubPc = "applying"
    /\ \E f \in HubFaults, caps \in HubCaps :
           LET kind == CurrentList
               n == First(todo[kind])
               h == HubState(config, previousConfig, connections)
               r == IF kind = "added" THEN ApplyAdded(h, n, f, caps)
                    ELSE IF kind = "removed" THEN ApplyRemoved(h, n, f)
                    ELSE ApplyModified(h, n, f, caps)
               next == AfterOperation(r.raised)
               rest == [todo EXCEPT ![kind] = @ \ {n}]
               handled == next = "continue" /\ ~IsSignificant(rest)
               evs == IF handled THEN <<"importantConfigChangeHandled">> ELSE <<>>
           IN /\ config' = r.h.config
              /\ previousConfig' = r.h.previousConfig
              /\ connections' = r.h.connections
              /\ results' = MapSet(results, n, IF r.raised = "none" THEN "success" ELSE "error")
              /\ events' = events \o evs
              /\ broadcasts' = broadcasts \o Broadcast(evs)
              /\ todo' = IF next = "abort" THEN NoChanges ELSE rest
              /\ hubPc' = IF next = "abort" \/ handled THEN "ready" ELSE "applying"
              /\ lastOp' = HubOp("apply", n, kind, FALSE, r.raised)
    /\ UNCHANGED <<connVars, pending, changes, reloads>>
    /\ UNCHANGED <<calls, svcVars, envVars, fetchVars, overlapVars, watch>>

NextHub ==
    \/ HInitialize
    \/ HInitTask
    \/ HInitDone
    \/ HConfigChanged
    \/ HApplyStep

SpecHub == InitHub /\ [][NextHub]_vars

-----------------------------------------------------------------------------
(* SpecHubOps: the hub with its endpoints called while it runs *)

\* callTool / readResource / getPrompt of the hub: forward to the supervisor
\* of the name, or raise when the map has none
HubCallTool(h, n, toolName, args) ==
    IF n \notin DOMAIN h.connections THEN "Server not found"
    ELSE CallToolGuard(h.connections[n], toolName, args)

HubReadResource(h, n, uri) ==
    IF n \notin DOMAIN h.connections THEN "Server not found"
    ELSE ReadResourceGuard(h.connections[n], uri)

HubGetPrompt(h, n, promptName, args) ==
    IF n \notin DOMAIN h.connections THEN "Server not found"
    ELSE GetPromptGuard(h.connections[n], promptName, args)

\* refreshServer(name)
RefreshServer(h, n, caps) ==
    IF n \notin DOMAIN h.connections THEN [h |-> h, raised |-> "Server not found"]
    ELSE [h |-> [h EXCEPT !.connections[n] = UpdateCapabilities(@, caps)],
          raised |-> "none"]

\* what a start requested over the endpoint can meet: a server that comes up,
\* or one that refuses the connection
CallFaults == {NoFault, [at |-> "clientConnect", msg |-> "ECONNREFUSED", close |-> "none"]}

\* a request can reach the hub once it is initialized, also while a config
\* change is being applied
Serving == hubPc \in {"ready", "applying"} /\ calls < MaxCalls

\* POST /servers/start
HStartServer ==
    /\ Serving
    /\ \E n \in Names, f \in CallFaults, caps \in HubCaps :
         \E r \in {StartServer(HubState(config, previousConfig, connections), n, f, caps)} :
              /\ config' = r.h.config
              /\ previousConfig' = r.h.previousConfig
              /\ connections' = r.h.connections
              /\ lastOp' = HubOp("startServer", n, "-", FALSE, r.raised)
    /\ calls' = calls + 1
    /\ UNCHANGED <<connVars, hubPc, pending, todo, changes, events, broadcasts,
                   results, reloads, svcVars, envVars, fetchVars, overlapVars, watch>>

\* POST /servers/stop
HStopServer ==
    /\ Serving
    /\ \E n \in Names, disable \in BOOLEAN, cf \in {"none", "client"} :
         \E r \in {StopServer(HubState(config, previousConfig, connections), n, disable, cf)} :
              /\ config' = r.h.config
              /\ previousConfig' = r.h.previousConfig
              /\ connections' = r.h.connections
              /\ lastOp' = HubOp("stopServer", n, "-", disable, r.raised)
    /\ calls' = calls + 1
    /\ UNCHANGED <<connVars, hubPc, pending, todo, changes, events, broadcasts,
                   results, reloads, svcVars, envVars, fetchVars, overlapVars, watch>>

\* POST /servers/refresh
HRefreshServer ==
    /\ Serving
    /\ \E n \in Names, caps \in HubCaps :
         \E r \in {RefreshServer(HubState(config, previousConfig, connections), n, caps)} :
              /\ connections' = r.h.connections
              /\ lastOp' = HubOp("refreshServer", n, "-", FALSE, r.raised)
    /\ calls' = calls + 1
    /\ UNCHANGED <<connVars, config, previousConfig, hubPc, pending, todo, changes,
                   events, broadcasts, results, reloads, svcVars, envVars, fetchVars, overlapVars, watch>>

\* POST /servers/tools, /servers/resources, /servers/prompts
HDispatch ==
    /\ Serving
    /\ \E n \in Names :
         LET h == HubState(config, previousConfig, connections)
         IN \/ \E g \in {HubCallTool(h, n, "t1", "object")} :
                  lastOp' = Op("hubCallTool", n, "object", FALSE,
                               IF g = "send" THEN "none" ELSE g, <<>>, g = "send")
            \/ \E g \in {HubReadResource(h, n, UriFile)} :
                  lastOp' = Op("hubReadResource", n, "-", FALSE,
                               IF g = "send" THEN "none" ELSE g, <<>>, g = "send")
            \/ \E g \in {HubGetPrompt(h, n, "p1", "object")} :
                  lastOp' = Op("hubGetPrompt", n, "object", FALSE,
                               IF g = "send" THEN "none" ELSE g, <<>>, g = "send")
    /\ calls' = calls + 1
    /\ UNCHANGED <<connVars, hubVars, svcVars, envVars, fetchVars, overlapVars, watch>>

NextHubOps ==
    \/ HInitialize
    \/ HInitTask
    \/ HInitDone
    \/ HConfigChanged
    \/ HApplyStep
    \/ HStartServer
    \/ HStopServer
    \/ HRefreshServer
    \/ HDispatch

SpecHubOps == InitHub /\ [][NextHubOps]_vars

-----------------------------------------------------------------------------
(* SpecShutdown: the hub is initialized and then cleaned up *)

\* disconnectAll: the outcome of disconnectServer for one name; a rejected
\* close is caught and logged inside disconnectServer
DisconnectOutcome(c, closeFault) ==
    IF Disconnect(c, "", closeFault).threw THEN "failed" ELSE "disconnected"

\* disconnectAll as it would be if it kept the supervisors whose close failed
ClearedConnectionsKeepFailed(conns, outcomes) ==
    [n \in {m \in DOMAIN conns : m \in DOMAIN outcomes /\ outcomes[m] = "failed"} |-> conns[n]]

\* disconnectAll: this.connections.clear()
ClearedConnections(conns, outcomes) == EmptyMap

\* cleanup(): disconnectAll() calls disconnectServer for every name of the map
HShutdown ==
    /\ hubPc = "ready"
    /\ hubPc' = "stopping"
    /\ pending' = DOMAIN connections
    /\ results' = EmptyMap
    /\ lastOp' = HubOp("cleanup", "-", "-", FALSE, "pending")
    /\ UNCHANGED <<connVars, config, previousConfig, connections, todo, changes,
                   events, broadcasts, reloads, calls, svcVars, envVars, fetchVars, overlapVars, watch>>

\* disconnectAll: the disconnectServer call of one name settles
HDisconnectTask ==
    /\ hubPc = "stopping"
    /\ \E n \in pending, cf \in CloseFaults :
           LET h == DisconnectServer(HubState(config, previousConfig, connections), n, cf)
               outcome == DisconnectOutcome(connections[n], cf)
           IN /\ connections' = h.connections
              /\ pending' = pending \ {n}
              /\ results' = MapSet(results, n, outcome)
              /\ lastOp' = HubOp("disconnectTask", n, "-", FALSE,
                                 IF outcome = "failed" THEN "logged" ELSE "none")
    /\ UNCHANGED <<connVars, config, previousConfig, hubPc, todo, changes, events,
                   broadcasts, reloads, calls, svcVars, envVars, fetchVars, overlapVars, watch>>

\* Promise.allSettled resolves, the map is cleared and cleanup() returns
HDisconnectDone ==
    /\ hubPc = "stopping"
    /\ pending = {}
    /\ connections' = ClearedConnections(connections, results)
    /\ hubPc' = "stopped"
    /\ lastOp' = HubOp("cleanup", "-", "-", FALSE, "none")
    /\ UNCHANGED <<connVars, config, previousConfig, pending, todo, changes, events,
                   broadcasts, results, reloads, calls, svcVars, envVars, fetchVars, overlapVars, watch>>

NextShutdown ==
    \/ HInitialize
    \/ HInitTask
    \/ HInitDone
    \/ HShutdown
    \/ HDisconnectTask
    \/ HDisconnectDone

SpecShutdown == InitHub /\ [][NextShutdown]_vars

-----------------------------------------------------------------------------
(* SpecConfig: the config store, its file and its watcher *)

\* initialize(): the first loadConfig(); when it succeeds watchConfig() follows
KLoadConfig ==
    /\ hubPc = "off"
    /\ \E file \in ConfigFiles :
         \E r \in {LoadConfig(StoreState(config, previousConfig), file)} :
              /\ config' = r.st.config
              /\ previousConfig' = r.st.previousConfig
              /\ changes' = IF r.raised = "none" THEN r.changes ELSE changes
              /\ hubPc' = IF r.raised = "none" THEN "watching" ELSE "off"
              /\ lastOp' = HubOp("loadConfig", "-", "-", FALSE, r.raised)
    /\ events' = <<>>
    /\ UNCHANGED <<connVars, connections, pending, todo, broadcasts, results, reloads,
                   calls, svcVars, envVars, fetchVars, overlapVars, watch>>

\* the watcher's change handler: loadConfig(), then emit configChanged; an
\* error is caught and logged
KFileChanged ==
    /\ hubPc = "watching"
    /\ \E file \in ConfigFiles :
         \E r \in {LoadConfig(StoreState(config, previousConfig), file)} :
              /\ config' = r.st.config
              /\ previousConfig' = r.st.previousConfig
              /\ changes' = IF r.raised = "none" THEN r.changes ELSE changes
              /\ events' = IF r.raised = "none" THEN <<"configChanged">> ELSE <<>>
              /\ lastOp' = HubOp("fileChanged", "-", "-", FALSE, r.raised)
    /\ UNCHANGED <<connVars, connections, hubPc, pending, todo, broadcasts, results,
                   reloads, calls, svcVars, envVars, fetchVars, overlapVars, watch>>

NextConfig == KLoadConfig \/ KFileChanged

SpecConfig == InitHub /\ [][NextConfig]_vars

-----------------------------------------------------------------------------
(* SpecService: the service manager, its hub state and its client manager *)

ClientIds == {"c1", "c2"}

\* new ClientManager(shutdownGracePeriodSeconds): the constructor has this one
\* parameter
NewClientManager(shutdownGracePeriodSeconds) ==
    [clients |-> {}, shutdownTimer |-> FALSE,
     shutdownGracePeriodSeconds |-> shutdownGracePeriodSeconds]

\* new ClientManager(this.autoShutdown, this.shutdownDelay): the first argument
\* lands in the grace period, the second one in no parameter
ServiceClientManager(auto, delay) == NewClientManager(auto)

\* the client manager as the variables hold it
ClientManagerNow ==
    [clients |-> clients, shutdownTimer |-> shutdownTimer,
     shutdownGracePeriodSeconds |-> autoShutdown]

\* registerClient that leaves a pending timer alone
RegisterClientKeepsTimer(cm, id) ==
    IF id \in cm.clients
    THEN [cm |-> cm, raised |-> "Client already registered"]
    ELSE [cm |-> [cm EXCEPT !.clients = @ \cup {id}], raised |-> "none"]

\* registerClient(clientId)
RegisterClient(cm, id) ==
    IF id \in cm.clients
    THEN [cm |-> cm, raised |-> "Client already registered"]
    ELSE [cm |-> [cm EXCEPT !.clients = @ \cup {id}, !.shutdownTimer = FALSE],
          raised |-> "none"]

\* unregisterClient as it would be without its check of the client set
UnregisterClientUnchecked(cm, id) ==
    LET left == cm.clients \ {id}
    IN [cm |-> [cm EXCEPT !.clients = left,
                          !.shutdownTimer = IF left = {} /\ ~cm.shutdownTimer
                                            THEN TRUE ELSE @],
        raised |-> "none"]

\* unregisterClient(clientId): the timer is armed when the set is empty and no
\* timer is pending; nothing else is consulted
UnregisterClient(cm, id) ==
    IF id \notin cm.clients
    THEN [cm |-> cm, raised |-> "Client not registered"]
    ELSE LET left == cm.clients \ {id}
         IN [cm |-> [cm EXCEPT !.clients = left,
                               !.shutdownTimer = IF left = {} /\ ~cm.shutdownTimer
                                                 THEN TRUE ELSE @],
             raised |-> "none"]

\* initiateShutdown(): the timer's callback
InitiateShutdown(cm) ==
    IF cm.clients = {}
    THEN [cm |-> [cm EXCEPT !.shutdownTimer = FALSE], emits |-> TRUE]
    ELSE [cm |-> cm, emits |-> FALSE]

\* setState(newState): assigns whatever it is given
SetState(state, newState) == newState

\* the process is alive
Running == "exited" \notin svcTasks

\* the hub has been initialized once, so the client manager exists
Booted == Running /\ "listen" \notin svcTasks /\ "init" \notin svcTasks

\* what the service manager's own steps leave alone: the supervisors, the
\* hub's map and its config
svcRest == <<connVars, config, previousConfig, connections, pending, todo,
             changes, events, broadcasts, results, reloads, calls, envVars, fetchVars, overlapVars, watch>>

SvcOp(op, name, raised) == Op(op, name, "-", FALSE, raised, <<>>, FALSE)

\* shutdown() up to its await: STOPPING, then stopMCPHub, the event stream's
\* shutdown and stopServer are in flight
ShutdownBegin ==
    /\ svcState' = SetState(svcState, "stopping")
    /\ svcTasks' = svcTasks \cup {"shutdown", "stopHub"}

InitService ==
    /\ conn = NewConnection([command |-> "cmd1", disabled |-> "absent"])
    /\ inflight = 0
    /\ lastOp = NoOp
    /\ config = EmptyMap
    /\ previousConfig = EmptyMap
    /\ connections = EmptyMap
    /\ hubPc = "off"
    /\ pending = {}
    /\ todo = NoChanges
    /\ changes = NoChanges
    /\ events = <<>>
    /\ broadcasts = <<>>
    /\ results = EmptyMap
    /\ reloads = 0
    /\ calls = 0
    /\ svcState = "starting"
    /\ svcTasks = {"listen"}
    /\ autoShutdown \in BOOLEAN
    /\ clients = ServiceClientManager(autoShutdown, 0).clients
    /\ shutdownTimer = ServiceClientManager(autoShutdown, 0).shutdownTimer
    /\ sigterm = FALSE
    /\ RestIdle

\* startServer() resolves: the port is open and initializeMCPHub() creates the
\* hub and awaits its initialize()
SListenDone ==
    /\ Running /\ "listen" \in svcTasks
    /\ svcTasks' = (svcTasks \ {"listen"}) \cup {"init"}
    /\ hubPc' = "init"
    /\ lastOp' = SvcOp("listenDone", "-", "none")
    /\ UNCHANGED <<svcState, clients, shutdownTimer, autoShutdown, sigterm>>
    /\ UNCHANGED svcRest

\* the port cannot be opened: ERROR, and the failed start ends the process
SListenError ==
    /\ Running /\ "listen" \in svcTasks
    /\ svcState' = SetState(svcState, "error")
    /\ svcTasks' = {"exited"}
    /\ lastOp' = SvcOp("listenError", "-", "HTTP_SERVER_ERROR")
    /\ UNCHANGED <<hubPc, clients, shutdownTimer, autoShutdown, sigterm>>
    /\ UNCHANGED svcRest

\* initializeMCPHub() resumes after the hub's initialize(): READY
SInitializeDone ==
    /\ Running /\ "init" \in svcTasks
    /\ svcTasks' = svcTasks \ {"init"}
    /\ svcState' = SetState(svcState, "ready")
    /\ hubPc' = IF hubPc = "off" THEN "off" ELSE "ready"
    /\ lastOp' = SvcOp("initializeDone", "-", "none")
    /\ UNCHANGED <<clients, shutdownTimer, autoShutdown, sigterm>>
    /\ UNCHANGED svcRest

\* the hub's initialize() rejects: the failed start ends the process
SInitializeFails ==
    /\ Running /\ "init" \in svcTasks
    /\ svcTasks' = {"exited"}
    /\ lastOp' = SvcOp("initializeFails", "-", "SERVER_START_ERROR")
    /\ UNCHANGED <<svcState, hubPc, clients, shutdownTimer, autoShutdown, sigterm>>
    /\ UNCHANGED svcRest

\* POST /restart: restartHub() up to its await
SRestartHub ==
    /\ Running /\ "listen" \notin svcTasks /\ "restart" \notin svcTasks
    /\ IF hubPc # "off"
       THEN /\ svcState' = SetState(svcState, "restarting")
            /\ svcTasks' = svcTasks \cup {"restart"}
            /\ hubPc' = "init"
       ELSE UNCHANGED <<svcState, svcTasks, hubPc>>
    /\ lastOp' = SvcOp("restartHub", "-", "none")
    /\ UNCHANGED <<clients, shutdownTimer, autoShutdown, sigterm>>
    /\ UNCHANGED svcRest

\* restartHub() resumes after initialize(true): RESTARTED
SRestartDone ==
    /\ Running /\ "restart" \in svcTasks
    /\ svcTasks' = svcTasks \ {"restart"}
    /\ svcState' = SetState(svcState, "restarted")
    /\ hubPc' = IF hubPc = "off" THEN "off" ELSE "ready"
    /\ lastOp' = SvcOp("restartDone", "-", "none")
    /\ UNCHANGED <<clients, shutdownTimer, autoShutdown, sigterm>>
    /\ UNCHANGED svcRest

\* initialize(true) rejects: the request fails, the state stays as it is
SRestartFails ==
    /\ Running /\ "restart" \in svcTasks
    /\ svcTasks' = svcTasks \ {"restart"}
    /\ lastOp' = SvcOp("restartFails", "-", "HUB_RESTART_ERROR")
    /\ UNCHANGED <<svcState, hubPc, clients, shutdownTimer, autoShutdown, sigterm>>
    /\ UNCHANGED svcRest

\* SIGTERM or SIGINT from outside the process
SSignal ==
    /\ Running
    /\ ShutdownBegin
    /\ lastOp' = SvcOp("signal", "-", "none")
    /\ UNCHANGED <<hubPc, clients, shutdownTimer, autoShutdown, sigterm>>
    /\ UNCHANGED svcRest

\* stopMCPHub() resumes after the hub's cleanup(), which may have failed
SStopHubDone ==
    /\ Running /\ "stopHub" \in svcTasks
    /\ svcTasks' = svcTasks \ {"stopHub"}
    /\ \E cleaned \in BOOLEAN :
         /\ hubPc' = IF cleaned THEN "off" ELSE hubPc
         /\ lastOp' = SvcOp("stopMCPHub", "-", IF cleaned \/ hubPc = "off" THEN "none" ELSE "logged")
    /\ UNCHANGED <<svcState, clients, shutdownTimer, autoShutdown, sigterm>>
    /\ UNCHANGED svcRest

\* shutdown() resumes: the hub is stopped and the HTTP server has closed, which
\* it does once no request is open; STOPPED, and the process exits
SShutdownDone ==
    /\ Running /\ "shutdown" \in svcTasks
    /\ "stopHub" \notin svcTasks /\ "restart" \notin svcTasks
    /\ svcState' = SetState(svcState, "stopped")
    /\ svcTasks' = {"exited"}
    /\ lastOp' = SvcOp("shutdownDone", "-", "none")
    /\ UNCHANGED <<hubPc, clients, shutdownTimer, autoShutdown, sigterm>>
    /\ UNCHANGED svcRest

\* POST /client/register
SRegisterClient ==
    /\ Booted
    /\ \E id \in ClientIds :
         \E r \in {RegisterClient(ClientManagerNow, id)} :
              /\ clients' = r.cm.clients
              /\ shutdownTimer' = r.cm.shutdownTimer
              /\ lastOp' = SvcOp("registerClient", id, r.raised)
    /\ UNCHANGED <<svcState, svcTasks, hubPc, autoShutdown, sigterm>>
    /\ UNCHANGED svcRest

\* POST /client/unregister
SUnregisterClient ==
    /\ Booted
    /\ \E id \in ClientIds :
         \E r \in {UnregisterClient(ClientManagerNow, id)} :
              /\ clients' = r.cm.clients
              /\ shutdownTimer' = r.cm.shutdownTimer
              /\ lastOp' = SvcOp("unregisterClient", id, r.raised)
    /\ UNCHANGED <<svcState, svcTasks, hubPc, autoShutdown, sigterm>>
    /\ UNCHANGED svcRest

\* the shutdown timer fires: initiateShutdown(), whose SIGTERM runs the signal
\* handler at once
STimerFires ==
    /\ Booted /\ shutdownTimer
    /\ \E r \in {InitiateShutdown(ClientManagerNow)} :
         /\ clients' = r.cm.clients
         /\ shutdownTimer' = r.cm.shutdownTimer
         /\ sigterm' = (sigterm \/ r.emits)
         /\ IF r.emits THEN ShutdownBegin ELSE UNCHANGED <<svcState, svcTasks>>
    /\ lastOp' = SvcOp("timerFires", "-", "none")
    /\ UNCHANGED <<hubPc, autoShutdown>>
    /\ UNCHANGED svcRest

NextService ==
    \/ SListenDone
    \/ SListenError
    \/ SInitializeDone
    \/ SInitializeFails
    \/ SRestartHub
    \/ SRestartDone
    \/ SRestartFails
    \/ SSignal
    \/ SStopHubDone
    \/ SShutdownDone
    \/ SRegisterClient
    \/ SUnregisterClient
    \/ STimerFires

SpecService == InitService /\ [][NextService]_vars

-----------------------------------------------------------------------------
(* The placeholder resolver: EnvResolver *)
(*                                                                         *)
(* A string is a sequence of tokens: "${" and "}" delimit a placeholder,   *)
(* "cmd:" opens a command, "$" is a dollar sign not followed by a brace,   *)
(* every other token is a name or a piece of plain text.                   *)

\* ${NAME}
Var(n) == <<"${", n, "}">>

\* ${cmd: text}
Cmd(text) == <<"${", "cmd:">> \o text \o <<"}">>

\* the value null, which is no string
JsNull == <<"#null">>

\* process.env
ProcessEnv == [n \in {"H", "D"} |-> IF n = "H" THEN <<"h">> ELSE <<"d">>]

\* options.maxPasses || 10
DefaultMaxPasses == 10

\* /\$\{([^}]+)\}/g run over str from position i: the matches, left to right.
\* A match opens at "${" and ends at the first "}" after it, with at least one
\* token in between; whatever else lies in between, "${" included, is content.
RECURSIVE PlaceholderMatchesFrom(_, _)
PlaceholderMatchesFrom(str, i) ==
    IF i > Len(str) THEN <<>>
    ELSE IF str[i] # "${" THEN PlaceholderMatchesFrom(str, i + 1)
    ELSE LET closers == {j \in (i + 1)..Len(str) : str[j] = "}"}
         IN IF closers = {} THEN <<>>
            ELSE LET j == CHOOSE k \in closers : \A m \in closers : k <= m
                 IN IF j > i + 1
                    THEN <<[from |-> i, to |-> j]>> \o PlaceholderMatchesFrom(str, j + 1)
                    ELSE PlaceholderMatchesFrom(str, i + 1)

PlaceholderMatches(str) == PlaceholderMatchesFrom(str, 1)

\* _hasUnresolvedPlaceholders(value)
HasUnresolvedPlaceholders(str) == PlaceholderMatches(str) # <<>>

\* result.replace(fullMatch, resolvedValue): a string pattern replaces its
\* first occurrence only
ReplaceFirst(str, pat, rep) ==
    LET starts == {k \in 1..(Len(str) - Len(pat) + 1) : SubSeq(str, k, k + Len(pat) - 1) = pat}
    IN IF starts = {} THEN str
       ELSE LET k == CHOOSE x \in starts : \A y \in starts : x <= y
            IN SubSeq(str, 1, k - 1) \o rep \o SubSeq(str, k + Len(pat), Len(str))

\* execPromise(command): what the shell makes of a command.  "ok" prints
\* "out", "cat d/t" prints "tok", a command with an unclosed "${" is a syntax
\* error, any other command fails or times out.
Exec(command) ==
    IF \E i \in 1..Len(command) : command[i] = "${" THEN [ok |-> FALSE, stdout |-> <<>>]
    ELSE IF command = <<"ok">> THEN [ok |-> TRUE, stdout |-> <<"out">>]
    ELSE IF command = <<"cat", "d", "/t">> THEN [ok |-> TRUE, stdout |-> <<"tok">>]
    ELSE [ok |-> FALSE, stdout |-> <<>>]

\* _executeCommand(value) for value = "${cmd: ...}": the command is the text up
\* to the first "}"; an empty one is refused before the shell sees it
ExecuteCommand(fullMatch) ==
    LET command == SubSeq(fullMatch, 3, Len(fullMatch) - 1)
    IN IF command = <<>> THEN [ok |-> FALSE, ran |-> FALSE, command |-> command, stdout |-> <<>>]
       ELSE [ok |-> Exec(command).ok, ran |-> TRUE, command |-> command,
             stdout |-> Exec(command).stdout]

\* context[content]
Defined(context, content) == Len(content) = 1 /\ content[1] \in DOMAIN context

\* _resolveStringWithPlaceholders(str, context): the loop over the matches
\* found in str, from the match at the head of ms on
RECURSIVE ResolveMatches(_, _, _, _, _)
ResolveMatches(str, context, strict, ms, acc) ==
    IF ms = <<>>
    THEN [raised |-> "none", value |-> acc.result, executed |-> acc.executed]
    ELSE LET fullMatch == SubSeq(str, Head(ms).from, Head(ms).to)
             content == SubSeq(str, Head(ms).from + 1, Head(ms).to - 1)
         IN IF fullMatch \in acc.processed
            THEN ResolveMatches(str, context, strict, Tail(ms), acc)
            ELSE LET acc1 == [acc EXCEPT !.processed = @ \cup {fullMatch}]
                 IN IF Head(content) = "cmd:"
                    THEN LET r == ExecuteCommand(fullMatch)
                             acc2 == [acc1 EXCEPT !.executed =
                                         IF r.ran THEN Append(@, r.command) ELSE @]
                         IN IF r.ok
                            THEN ResolveMatches(str, context, strict, Tail(ms),
                                     [acc2 EXCEPT !.result = ReplaceFirst(@, fullMatch, r.stdout)])
                            ELSE IF strict
                                 THEN [raised |-> "cmd execution failed", value |-> <<>>,
                                       executed |-> acc2.executed]
                                 ELSE ResolveMatches(str, context, strict, Tail(ms), acc2)
                    ELSE IF Defined(context, content)
                         THEN ResolveMatches(str, context, strict, Tail(ms),
                                  [acc1 EXCEPT !.result =
                                      ReplaceFirst(@, fullMatch, context[content[1]])])
                         ELSE IF strict
                              THEN [raised |-> "Variable not found", value |-> <<>>,
                                    executed |-> acc1.executed]
                              ELSE ResolveMatches(str, context, strict, Tail(ms), acc1)

\* _resolveStringWithPlaceholders, were it to take every resolver for lenient
ResolveStringIgnoresStrict(str, context, strict) ==
    IF str = JsNull THEN [raised |-> "none", value |-> str, executed |-> <<>>]
    ELSE ResolveMatches(str, context, FALSE, PlaceholderMatches(str),
                        [result |-> str, processed |-> {}, executed |-> <<>>])

\* _resolveStringWithPlaceholders(str, context)
ResolveString(str, context, strict) ==
    IF str = JsNull THEN [raised |-> "none", value |-> str, executed |-> <<>>]
    ELSE ResolveMatches(str, context, strict, PlaceholderMatches(str),
                        [result |-> str, processed |-> {}, executed |-> <<>>])

\* an env object: its entries in the order they are written
NoEnv == [present |-> FALSE, entries |-> <<>>]
EnvOf(entries) == [present |-> TRUE, entries |-> entries]

\* a config with nothing in it; also stands for "nothing returned"
NoConfig == [env |-> NoEnv, args |-> <<>>, command |-> <<>>]

\* the test for null or '', were it negated
NullOrEmptyNegated(value) == ~(value = JsNull \/ value = <<>>)

\* value === null || value === ''
NullOrEmpty(value) == value = JsNull \/ value = <<>>

\* baseContext[key] || ''
FallbackOrEmpty(base, key) == IF key \in DOMAIN base THEN base[key] ELSE <<>>

\* _resolveEnvObject(envConfig, baseContext) in one pass: each entry is
\* resolved against the base context alone
RECURSIVE ResolveEnvEntries(_, _, _, _)
ResolveEnvEntries(entries, base, strict, acc) ==
    IF entries = <<>> THEN [raised |-> "none", resolved |-> acc.resolved, executed |-> acc.executed]
    ELSE LET key == Head(entries).key
             value == Head(entries).value
         IN IF NullOrEmpty(value)
            THEN IF key \notin DOMAIN base /\ strict
                 THEN [raised |-> "Variable not found", resolved |-> acc.resolved,
                       executed |-> acc.executed]
                 ELSE ResolveEnvEntries(Tail(entries), base, strict,
                          [acc EXCEPT !.resolved = (key :> FallbackOrEmpty(base, key)) @@ @])
            ELSE LET r == ResolveString(value, base, strict)
                 IN IF r.raised # "none"
                    THEN [raised |-> r.raised, resolved |-> acc.resolved,
                          executed |-> acc.executed \o r.executed]
                    ELSE ResolveEnvEntries(Tail(entries), base, strict,
                             [acc EXCEPT !.resolved = (key :> r.value) @@ @,
                                         !.executed = @ \o r.executed])

ResolveEnvObject(entries, base, strict) ==
    ResolveEnvEntries(entries, base, strict, [resolved |-> <<>>, executed |-> <<>>])

\* _resolveEnvObject with several passes: the body of the for loop, over the
\* entries still unresolved
RECURSIVE EnvPass(_, _, _)
EnvPass(unresolved, base, st) ==
    IF unresolved = <<>> THEN st
    ELSE LET key == Head(unresolved).key
             value == Head(unresolved).value
             valueToResolve == IF NullOrEmpty(value) THEN FallbackOrEmpty(base, key) ELSE value
             r == ResolveString(valueToResolve, st.working, FALSE)
         IN IF HasUnresolvedPlaceholders(r.value)
            THEN EnvPass(Tail(unresolved), base,
                         [st EXCEPT !.still = Append(@, Head(unresolved)),
                                    !.executed = @ \o r.executed])
            ELSE EnvPass(Tail(unresolved), base,
                         [st EXCEPT !.resolved = (key :> r.value) @@ @,
                                    !.working = (key :> r.value) @@ @,
                                    !.progress = TRUE,
                                    !.executed = @ \o r.executed])

\* value || baseContext[key] || ''
ValueOrFallback(value, base, key) ==
    IF ~NullOrEmpty(value) THEN value ELSE FallbackOrEmpty(base, key)

RECURSIVE KeepAsIs(_, _, _)
KeepAsIs(still, base, resolved) ==
    IF still = <<>> THEN resolved
    ELSE KeepAsIs(Tail(still), base,
                  (Head(still).key :> ValueOrFallback(Head(still).value, base, Head(still).key))
                     @@ resolved)

\* _resolveEnvObject with several passes: the while loop
RECURSIVE EnvPasses(_, _, _, _, _)
EnvPasses(unresolved, base, st, passCount, maxPasses) ==
    IF unresolved = <<>> \/ passCount >= maxPasses
    THEN [raised |-> "none", resolved |-> st.resolved, executed |-> st.executed]
    ELSE LET p == EnvPass(unresolved, base, [st EXCEPT !.still = <<>>, !.progress = FALSE])
         IN IF ~p.progress
            THEN [raised |-> "none", resolved |-> KeepAsIs(p.still, base, p.resolved),
                  executed |-> p.executed]
            ELSE EnvPasses(p.still, base, p, passCount + 1, maxPasses)

ResolveEnvObjectMultiPass(entries, base, maxPasses) ==
    EnvPasses(entries, base,
              [resolved |-> <<>>, working |-> base, still |-> <<>>, progress |-> FALSE,
               executed |-> <<>>],
              0, maxPasses)

\* arg.startsWith('$') && !arg.startsWith('${')
IsLegacyArg(arg) == arg # <<>> /\ Head(arg) = "$"

\* _resolveFieldUniversal(fieldValue, context, 'args'): the loop over the args.
\* checksLegacy says whether a missing legacy variable is an error in strict
\* mode
RECURSIVE ResolveArgs(_, _, _, _, _)
ResolveArgs(args, context, strict, checksLegacy, acc) ==
    IF args = <<>> THEN [raised |-> "none", value |-> acc.value, executed |-> acc.executed]
    ELSE LET arg == Head(args)
         IN IF IsLegacyArg(arg)
            THEN LET envKey == Tail(arg)
                 IN IF ~Defined(context, envKey) /\ strict /\ checksLegacy
                    THEN [raised |-> "Legacy variable not found", value |-> acc.value,
                          executed |-> acc.executed]
                    ELSE ResolveArgs(Tail(args), context, strict, checksLegacy,
                             [acc EXCEPT !.value = Append(@,
                                 IF Defined(context, envKey) /\ context[envKey[1]] # <<>>
                                 THEN context[envKey[1]] ELSE arg)])
            ELSE LET r == ResolveString(arg, context, strict)
                 IN IF r.raised # "none"
                    THEN [raised |-> r.raised, value |-> acc.value,
                          executed |-> acc.executed \o r.executed]
                    ELSE ResolveArgs(Tail(args), context, strict, checksLegacy,
                             [acc EXCEPT !.value = Append(@, r.value),
                                         !.executed = @ \o r.executed])

\* what resolveConfig returns: the resolved record, or what it raised
Resolved(raised, cfg, executed) ==
    [raised |-> raised, config |-> IF raised = "none" THEN cfg ELSE NoConfig,
     executed |-> executed]

\* resolveConfig(config) from the args on, in the order of fieldsToResolve
ResolveRest(cfg, env, context, strict, checksLegacy, executed) ==
    LET a == ResolveArgs(cfg.args, context, strict, checksLegacy,
                         [value |-> <<>>, executed |-> <<>>])
        c == ResolveString(cfg.command, context, strict)
    IN IF a.raised # "none" THEN Resolved(a.raised, cfg, executed \o a.executed)
       ELSE IF c.raised # "none"
            THEN Resolved(c.raised, cfg, executed \o a.executed \o c.executed)
            ELSE Resolved("none", [env |-> env, args |-> a.value, command |-> c.value],
                          executed \o a.executed \o c.executed)

\* an env object as resolveConfig returns it: the keys that got a value, here
\* in the order of the input
ResolvedEnv(entries, resolved) ==
    LET kept == SelectSeq(entries, LAMBDA x : x.key \in DOMAIN resolved)
    IN EnvOf([i \in 1..Len(kept) |-> [key |-> kept[i].key, value |-> resolved[kept[i].key]]])

\* resolveConfig(config) of the resolver with a strict mode, whose env is
\* resolved in one pass
ResolveConfig(cfg, strict) ==
    IF ~cfg.env.present
    THEN ResolveRest(cfg, cfg.env, ProcessEnv, strict, TRUE, <<>>)
    ELSE LET e == ResolveEnvObject(cfg.env.entries, ProcessEnv, strict)
         IN IF e.raised # "none" THEN Resolved(e.raised, cfg, e.executed)
            ELSE ResolveRest(cfg, ResolvedEnv(cfg.env.entries, e.resolved),
                             e.resolved @@ ProcessEnv, strict, TRUE, e.executed)

\* resolveConfig(config) of the resolver that resolves env in several passes
\* and has no strict mode
ResolveConfigMultiPass(cfg, maxPasses) ==
    IF ~cfg.env.present
    THEN ResolveRest(cfg, cfg.env, ProcessEnv, FALSE, FALSE, <<>>)
    ELSE LET e == ResolveEnvObjectMultiPass(cfg.env.entries, ProcessEnv, maxPasses)
         IN ResolveRest(cfg, ResolvedEnv(cfg.env.entries, e.resolved),
                        e.resolved @@ ProcessEnv, FALSE, FALSE, e.executed)

-----------------------------------------------------------------------------
(* SpecResolver: resolveConfig applied to configs drawn from small sets *)

\* most pieces a command string is made of, most entries of an env object
MaxPieces == 3
MaxEntries == 3

\* the pieces of a string: plain text, a variable that is set (D in the
\* process environment), one that is not (U), commands that succeed, fail or
\* are empty, and a command with a variable in its text
Pieces ==
    { <<"x">>, Var("D"), Var("U"), Cmd(<<"ok">>), Cmd(<<"ko">>), Cmd(<<>>),
      Cmd(<<"cat">> \o Var("D") \o <<"/t">>) }

RECURSIVE Joined(_)
Joined(ps) == IF ps = <<>> THEN <<>> ELSE Head(ps) \o Joined(Tail(ps))

StringInputs == {Joined(ps) : ps \in UNION {[1..n -> Pieces] : n \in 0..MaxPieces}}

EnvKeys == {"A", "B", "C"}

\* the values of env entries: plain text, references to entries and to the
\* process environment, a reference made twice, nothing
EnvValues ==
    { <<"v">>, Var("A"), Var("B"), Var("A") \o <<"x">>, Var("B") \o <<"x">>,
      Var("C") \o <<"x">>, Var("A") \o Var("A"), Var("H"), Var("U"), <<>>, JsNull }

\* env objects: up to MaxEntries entries with distinct keys, in any order
EnvInputs ==
    UNION { { e \in [1..n -> [key : EnvKeys, value : EnvValues]] :
                \A i, j \in 1..n : i # j => e[i].key # e[j].key } : n \in 0..MaxEntries }

ArgInputs == { <<"$", "H">>, <<"$", "U">>, <<"x">>, Var("H") }

\* the option sets a resolver is built with
OptionInputs ==
    { [strict |-> TRUE, maxPasses |-> DefaultMaxPasses],
      [strict |-> FALSE, maxPasses |-> DefaultMaxPasses],
      [strict |-> FALSE, maxPasses |-> 2] }

ConfigInputs ==
    {[env |-> NoEnv, args |-> <<>>, command |-> c] : c \in StringInputs}
      \cup {[env |-> EnvOf(e), args |-> <<>>, command |-> <<"x">>] : e \in EnvInputs}
      \cup {[env |-> NoEnv, args |-> <<a>>, command |-> <<"x">>] : a \in ArgInputs}

NoOutput == [impl |-> "none", raised |-> "none", config |-> NoConfig, executed |-> <<>>]

InitResolver ==
    /\ conn = NewConnection([command |-> "cmd1", disabled |-> "absent"])
    /\ inflight = 0
    /\ lastOp = NoOp
    /\ HubIdle
    /\ SvcIdle
    /\ resolverIn \in [config : ConfigInputs, options : OptionInputs]
    /\ resolverOut = NoOutput
    /\ fetches = <<>>
    /\ emitted = <<>>
    /\ serverVersion = 0
    /\ closing = FALSE
    /\ supervisors = <<>>
    /\ appliers = <<>>
    /\ overlapped = FALSE
    /\ watch = WatchIdle

resolverRest == <<connVars, lastOp, hubVars, calls, svcVars, fetchVars, overlapVars, watch>>

\* resolveConfig(config) of a resolver with a strict mode
EResolveConfig ==
    /\ resolverOut.impl = "none"
    /\ \E r \in {ResolveConfig(resolverIn.config, resolverIn.options.strict)} :
         resolverOut' = [impl |-> "onePass", raised |-> r.raised, config |-> r.config,
                         executed |-> r.executed]
    /\ UNCHANGED <<resolverIn, resolverRest>>

\* resolveConfig(config) of a resolver with several passes
EResolveConfigMultiPass ==
    /\ resolverOut.impl = "none"
    /\ \E r \in {ResolveConfigMultiPass(resolverIn.config, resolverIn.options.maxPasses)} :
         resolverOut' = [impl |-> "multiPass", raised |-> r.raised, config |-> r.config,
                         executed |-> r.executed]
    /\ UNCHANGED <<resolverIn, resolverRest>>

\* the resolved config is resolved once more, by the same resolver
EResolveAgain ==
    /\ resolverOut.impl \in {"onePass", "multiPass"}
    /\ resolverOut.raised = "none"
    /\ \E r \in {IF resolverOut.impl = "onePass"
                 THEN ResolveConfig(resolverOut.config, resolverIn.options.strict)
                 ELSE ResolveConfigMultiPass(resolverOut.config, resolverIn.options.maxPasses)} :
         resolverOut' = [impl |-> IF resolverOut.impl = "onePass" THEN "onePassAgain"
                                  ELSE "multiPassAgain",
                         raised |-> r.raised, config |-> r.config, executed |-> r.executed]
    /\ resolverIn' = [resolverIn EXCEPT !.config = resolverOut.config]
    /\ UNCHANGED resolverRest

NextResolver ==
    \/ EResolveConfig
    \/ EResolveConfigMultiPass
    \/ EResolveAgain

SpecResolver == InitResolver /\ [][NextResolver]_vars

-----------------------------------------------------------------------------
(* SpecFetch: one supervisor and its updateCapabilities() calls.  A call    *)
(* sends its four list requests and waits for all of them; the server       *)
(* answers each call's requests when it likes, and disconnect() runs in two *)
(* steps, before and after its awaits.                                      *)

\* updateCapabilities() calls started in a run, changes of the server's lists
MaxFetches == 3
MaxChanges == 2

\* the server's tool list after v changes
ToolsAt(v) == << {"t1"}, {"t1", "t2"}, {"t2"}, {"t2", "t3"}, {"t3"} >>[v + 1]

\* who called updateCapabilities(): connect(), the handler of a list-changed
\* notification, or a refresh
NotificationKinds == {"tools", "resources", "prompts"}

\* a call that has sent its requests: `answered` says whether tools/list was
\* answered and `version` with which tool list, `others` whether the three
\* other lists were answered, `closed` that the client was closed, which
\* rejects the requests not answered yet
NewFetch(origin, seq) ==
    [origin |-> origin, seq |-> seq, answered |-> FALSE, version |-> 0,
     others |-> FALSE, closed |-> FALSE]

\* safeRequest: the lists a call holds once Promise.all has resolved; a
\* rejected request reads as null, and null as an empty list
FetchedCaps(f) ==
    [ tools |-> IF f.answered THEN ToolsAt(f.version) ELSE {},
      resources |-> IF f.others THEN ResourceUris ELSE {},
      resourceTemplates |-> IF f.others THEN TemplateSet ELSE {},
      prompts |-> IF f.others THEN PromptNames ELSE {} ]

\* updateCapabilities() from the point where Promise.all resolves: the lists
\* are written, whatever has become of this.client in the meantime
WriteCapabilities(c, caps) ==
    [c EXCEPT !.resourceTemplates = caps.resourceTemplates,
              !.tools = caps.tools,
              !.resources = caps.resources,
              !.prompts = caps.prompts]

\* connect() from the point where its updateCapabilities() returns
ConnectAfterFetch(c) ==
    IF ~c.client
    THEN \* setupNotificationHandlers reads this.client, which is null
         ConnectCatch(c, "TypeError", "none").conn
    ELSE [c EXCEPT !.status = "connected", !.startTime = TRUE, !.error = NoError]

\* the event a notification handler emits after its updateCapabilities()
EventOf(origin) ==
    IF origin = "tools" THEN "toolsChanged"
    ELSE IF origin = "resources" THEN "resourcesChanged"
    ELSE IF origin = "prompts" THEN "promptsChanged"
    ELSE "none"

\* what is recorded of a call that settled: the event emitted, the lists
\* written, and whether disconnect() had completed by then
Settled(f, c) ==
    [ origin |-> f.origin, seq |-> f.seq, event |-> EventOf(f.origin),
      tools |-> FetchedCaps(f).tools,
      answered |-> f.answered,
      version |-> f.version,
      disconnected |-> ~c.client /\ ~closing ]

Started == Len(fetches) + Len(emitted)

Without(seq, i) == [k \in 1..(Len(seq) - 1) |-> IF k < i THEN seq[k] ELSE seq[k + 1]]

InitFetch ==
    /\ conn = NewConnection([command |-> "cmd1", disabled |-> "absent"])
    /\ inflight = 0
    /\ lastOp = NoOp
    /\ HubIdle
    /\ SvcIdle
    /\ RestIdle

fetchRest == <<inflight, lastOp, hubVars, calls, svcVars, envVars, overlapVars, watch>>

\* connect(): the client connects and the first updateCapabilities() starts
FConnect ==
    /\ ~conn.attempted
    /\ ~closing
    /\ conn' = ConnectSync(conn, NoFault).conn
    /\ fetches' = Append(fetches, NewFetch("connect", Started + 1))
    /\ UNCHANGED <<emitted, serverVersion, closing, fetchRest>>

\* the server changes its lists and says so; the handler of the notification
\* calls updateCapabilities()
FNotify ==
    /\ conn.status = "connected"
    /\ conn.client
    /\ ~closing
    /\ Started < MaxFetches
    /\ serverVersion < MaxChanges
    /\ serverVersion' = serverVersion + 1
    /\ \E kind \in NotificationKinds :
         fetches' = Append(fetches, NewFetch(kind, Started + 1))
    /\ UNCHANGED <<conn, emitted, closing, fetchRest>>

\* refreshServer: updateCapabilities() called from the hub
FRefresh ==
    /\ conn.client
    /\ Started < MaxFetches
    /\ fetches' = Append(fetches, NewFetch("refresh", Started + 1))
    /\ UNCHANGED <<conn, emitted, serverVersion, closing, fetchRest>>

\* the server answers the tools/list request of a call
FAnswerTools ==
    /\ \E i \in 1..Len(fetches) :
         /\ ~fetches[i].closed
         /\ ~fetches[i].answered
         /\ fetches' = [fetches EXCEPT ![i].answered = TRUE, ![i].version = serverVersion]
    /\ UNCHANGED <<conn, emitted, serverVersion, closing, fetchRest>>

\* the server answers the three other list requests of a call
FAnswerOthers ==
    /\ \E i \in 1..Len(fetches) :
         /\ ~fetches[i].closed
         /\ ~fetches[i].others
         /\ fetches' = [fetches EXCEPT ![i].others = TRUE]
    /\ UNCHANGED <<conn, emitted, serverVersion, closing, fetchRest>>

\* every request of a call is answered or rejected: Promise.all resolves,
\* updateCapabilities() writes the lists and returns to its caller, which goes
\* on: connect() to its end, a notification handler to its emit
FSettle ==
    /\ \E i \in 1..Len(fetches) :
         /\ fetches[i].closed \/ (fetches[i].answered /\ fetches[i].others)
         /\ conn' = IF fetches[i].origin = "connect"
                    THEN ConnectAfterFetch(WriteCapabilities(conn, FetchedCaps(fetches[i])))
                    ELSE WriteCapabilities(conn, FetchedCaps(fetches[i]))
         /\ emitted' = Append(emitted, Settled(fetches[i], conn))
         /\ fetches' = Without(fetches, i)
    /\ UNCHANGED <<serverVersion, closing, fetchRest>>

\* disconnect() up to `await this.client.close()`: the notification handlers
\* are removed and the client is closed, which rejects the requests that are
\* still waiting for an answer
FDisconnectBegin ==
    /\ conn.client
    /\ ~closing
    /\ closing' = TRUE
    /\ fetches' = [i \in 1..Len(fetches) |-> [fetches[i] EXCEPT !.closed = TRUE]]
    /\ UNCHANGED <<conn, emitted, serverVersion, fetchRest>>

\* disconnect() from its awaits on: resetState()
FDisconnectEnd ==
    /\ closing
    /\ closing' = FALSE
    /\ conn' = Disconnect(conn, "", "none").conn
    /\ UNCHANGED <<fetches, emitted, serverVersion, fetchRest>>

NextFetch ==
    \/ FConnect
    \/ FNotify
    \/ FRefresh
    \/ FAnswerTools
    \/ FAnswerOthers
    \/ FSettle
    \/ FDisconnectBegin
    \/ FDisconnectEnd

SpecFetch == InitFetch /\ [][NextFetch]_vars

-----------------------------------------------------------------------------
(* SpecOverlap: config reloads that arrive while an earlier one is still    *)
(* being applied.  The handler of configChanged is an async function that   *)
(* nothing serializes, so every reload starts its own handleConfigUpdated() *)
(* call; a call runs without interruption up to the next await that waits   *)
(* for the transport, and the calls interleave at these awaits.  Transport  *)
(* I/O always succeeds here.                                                *)

\* bound: config reloads in one run
MaxOverlapReloads == 2

\* the configs the file takes in this specification: an entry for "a" or none
OverlapConfigs == {cfg \in AllConfigs : DOMAIN cfg \subseteq {"a"}}

\* the hub's mutable state with its supervisors: connections maps a name to
\* the id of the supervisor the map holds for it
OverlapHub(cfg, prev, conns, sups) ==
    [config |-> cfg, previousConfig |-> prev, connections |-> conns, supervisors |-> sups]

HubNow == OverlapHub(config, previousConfig, connections, supervisors)

\* a supervisor the hub created, with whether the hub listens to its
\* toolsChanged / resourcesChanged / promptsChanged events
Supervisor(n, forwards, c) == [name |-> n, forwards |-> forwards, c |-> c]

\* what a suspended call waits for: connect(), start(), disconnect() or
\* stop() of supervisor id
Awaiting(kind, n, id) == [kind |-> kind, name |-> n, id |-> id]
NoWait == Awaiting("none", "-", 0)

\* a handleConfigUpdated(newConfig, changes) call: the part of each list its
\* loops have not finished, and the await it is suspended at
NewApplier(cfg, ch) ==
    [cfg |-> cfg, added |-> ch.added, removed |-> ch.removed, modified |-> ch.modified,
     wait |-> NoWait]

\* how a step of the hub ends: suspended at `wait`, or returned, or thrown
Went(h, wait, raised) == [h |-> h, wait |-> wait, raised |-> raised]

\* disconnect() has something to close, so its awaits wait for the transport
HasIO(c) == c.client \/ c.transport

\* connectServer(name, config) up to the await inside connect()
ConnectServerBegin(h, n, cfg) ==
    LET id == Len(h.supervisors) + 1
        s == ConnectSync(NewConnection(cfg), NoFault)
        h1 == [h EXCEPT !.supervisors = Append(@, Supervisor(n, FALSE, s.conn)),
                        !.connections = MapSet(@, n, id)]
    IN Went(h1, IF s.suspended THEN Awaiting("connect", n, id) ELSE NoWait, "none")

\* disconnectServer(name) up to the awaits inside disconnect()
DisconnectServerBegin(h, n) ==
    IF n \notin DOMAIN h.connections THEN Went(h, NoWait, "none")
    ELSE LET id == h.connections[n]
             c == h.supervisors[id].c
         IN IF HasIO(c) THEN Went(h, Awaiting("disconnect", n, id), "none")
            ELSE Went([h EXCEPT !.supervisors[id].c = ResetState(c, "")], NoWait, "none")

\* startServer(name) up to the await inside connect()
StartServerBegin(h, n) ==
    IF n \notin DOMAIN h.config THEN Went(h, NoWait, "Server not found")
    ELSE IF n \notin DOMAIN h.connections THEN Went(h, NoWait, "Server connection not found")
    ELSE LET id == h.connections[n]
             cfg == IF DisabledTruthy(h.config[n].disabled)
                    THEN [h.config EXCEPT ![n].disabled = "false"]
                    ELSE h.config
             prev == IF DisabledTruthy(h.config[n].disabled) THEN cfg ELSE h.previousConfig
             s == StartSync(h.supervisors[id].c, NoFault)
             h1 == [h EXCEPT !.config = cfg, !.previousConfig = prev,
                             !.supervisors[id].c = s.conn]
         IN Went(h1, IF s.suspended THEN Awaiting("start", n, id) ELSE NoWait, "none")

\* stopServer(name, true) up to the awaits inside disconnect()
StopServerBegin(h, n) ==
    IF n \notin DOMAIN h.config THEN Went(h, NoWait, "Server not found")
    ELSE LET cfg == [h.config EXCEPT ![n].disabled = "true"]
             h0 == [h EXCEPT !.config = cfg, !.previousConfig = cfg]
         IN IF n \notin DOMAIN h.connections
            THEN Went(h0, NoWait, "Server connection not found")
            ELSE LET id == h.connections[n]
                     c == [h.supervisors[id].c EXCEPT !.disabled = TRUE,
                                                      !.cfgDisabled = "true"]
                     h1 == [h0 EXCEPT !.supervisors[id].forwards = FALSE,
                                      !.supervisors[id].c = c]
                 IN IF HasIO(c) THEN Went(h1, Awaiting("stop", n, id), "none")
                    ELSE Went([h1 EXCEPT !.supervisors[id].c = ResetState(c, "")],
                              NoWait, "none")

\* serverConfig.disabled !== connection?.disabled, in a call that holds newConfig
DisabledChanged(h, wanted, n) ==
    LET w == IF wanted = "absent" THEN "undefined" ELSE wanted
        actual == IF n \notin DOMAIN h.connections THEN "undefined"
                  ELSE IF h.supervisors[h.connections[n]].c.disabled THEN "true"
                  ELSE "false"
    IN w # actual

\* the loop the call is in, and the name it is at
InLoop(t) ==
    IF t.added # {} THEN "added"
    ELSE IF t.removed # {} THEN "removed"
    ELSE IF t.modified # {} THEN "modified"
    ELSE "done"

AtName(t) ==
    IF t.added # {} THEN First(t.added)
    ELSE IF t.removed # {} THEN First(t.removed)
    ELSE First(t.modified)

\* the call has finished the body of its loop for the name it is at
NextName(t) ==
    IF t.added # {} THEN [t EXCEPT !.added = @ \ {AtName(t)}, !.wait = NoWait]
    ELSE IF t.removed # {} THEN [t EXCEPT !.removed = @ \ {AtName(t)}, !.wait = NoWait]
    ELSE [t EXCEPT !.modified = @ \ {AtName(t)}, !.wait = NoWait]

\* how far a call gets: suspended, or ended ("handled" after its last loop,
\* "aborted" by the catch around the loops)
Ran(h, t, ended) == [h |-> h, t |-> t, ended |-> ended]

\* the body of one loop of handleConfigUpdated for the name the call is at,
\* from its start up to its first await that waits for the transport
LoopBodyBegin(h, t) ==
    LET n == AtName(t)
    IN IF InLoop(t) = "added" THEN ConnectServerBegin(h, n, t.cfg[n])
       ELSE IF InLoop(t) = "removed" THEN DisconnectServerBegin(h, n)
       ELSE IF DisabledChanged(h, t.cfg[n].disabled, n)
       THEN IF DisabledTruthy(t.cfg[n].disabled)
            THEN StopServerBegin(h, n)
            ELSE StartServerBegin(h, n)
       ELSE LET d == DisconnectServerBegin(h, n)
            IN IF d.wait # NoWait THEN d ELSE ConnectServerBegin(d.h, n, t.cfg[n])

\* what follows a disconnectServer() that did not suspend, or has settled:
\* connections.delete(name) in the loop over removed
AfterDisconnect(h, t) ==
    IF InLoop(t) = "removed"
    THEN [h EXCEPT !.connections = MapDelete(@, AtName(t))]
    ELSE h

RECURSIVE Advance(_, _)
\* handleConfigUpdated from the start of a loop body to its next suspension
Advance(h, t) ==
    IF InLoop(t) = "done" THEN Ran(h, t, "handled")
    ELSE LET r == LoopBodyBegin(h, t)
         IN IF AfterOperation(r.raised) = "abort" THEN Ran(r.h, t, "aborted")
            ELSE IF r.wait # NoWait THEN Ran(r.h, [t EXCEPT !.wait = r.wait], "no")
            ELSE Advance(AfterDisconnect(r.h, t), NextName(t))

\* the operation a call is suspended at settles: the rest of that operation
SettleAwaited(h, t) ==
    LET id == t.wait.id
        c == h.supervisors[id].c
    IN IF t.wait.kind \in {"connect", "start"}
       THEN LET r == ConnectAsync(c, NoFault, FullCaps)
            IN Went([h EXCEPT !.supervisors[id].c = r.conn], NoWait, r.raised)
       ELSE Went([h EXCEPT !.supervisors[id].c = ResetState(c, "")], NoWait, "none")

\* handleConfigUpdated from the point where its await settles
Resume(h, t) ==
    LET r == SettleAwaited(h, t)
    IN IF AfterOperation(r.raised) = "abort" THEN Ran(r.h, t, "aborted")
       ELSE IF t.wait.kind = "disconnect" /\ InLoop(t) = "modified"
       THEN LET k == ConnectServerBegin(r.h, AtName(t), t.cfg[AtName(t)])
            IN IF k.wait # NoWait THEN Ran(k.h, [t EXCEPT !.wait = k.wait], "no")
               ELSE Advance(k.h, NextName(t))
       ELSE IF t.wait.kind = "disconnect"
       THEN Advance(AfterDisconnect(r.h, t), NextName(t))
       ELSE Advance(r.h, NextName(t))

\* the calls still suspended once call i has run as far as r
Suspended(tasks, i, r) ==
    IF r.ended = "no" THEN [tasks EXCEPT ![i] = r.t] ELSE Without(tasks, i)

overlapRest == <<connVars, pending, todo, changes, broadcasts, results, calls, svcVars,
                 envVars, fetchVars, watch>>

InitOverlap ==
    /\ conn = NewConnection([command |-> "cmd1", disabled |-> "absent"])
    /\ inflight = 0
    /\ lastOp = NoOp
    /\ HubIdle
    /\ SvcIdle
    /\ RestIdle

\* initialize(): startConfiguredServers creates a supervisor per entry,
\* forwards its events, puts it in the map and connects it
OInitialize ==
    /\ hubPc = "off"
    /\ \E A \in OverlapConfigs :
           LET order == [i \in 1..Cardinality(DOMAIN A) |->
                            CHOOSE n \in DOMAIN A :
                                Cardinality({m \in DOMAIN A : Rank(m) <= Rank(n)}) = i]
           IN /\ config' = A
              /\ previousConfig' = A
              /\ supervisors' =
                     [i \in DOMAIN order |->
                         Supervisor(order[i], TRUE,
                                    ConnectWhole(NewConnection(A[order[i]]), NoFault,
                                                 FullCaps).conn)]
              /\ connections' = [n \in DOMAIN A |-> CHOOSE i \in DOMAIN order : order[i] = n]
    /\ hubPc' = "ready"
    /\ lastOp' = HubOp("initialize", "-", "-", FALSE, "none")
    /\ UNCHANGED <<appliers, overlapped, events, reloads, overlapRest>>

\* the watcher reloads the file and emits configChanged; the handler calls
\* handleConfigUpdated, which runs up to its first suspension
OConfigChanged ==
    /\ hubPc = "ready"
    /\ reloads < MaxOverlapReloads
    /\ \E B \in OverlapConfigs :
           LET ch == DiffConfigs(previousConfig, B)
               h == OverlapHub(B, B, connections, supervisors)
               r == IF IsSignificant(ch) THEN Advance(h, NewApplier(B, ch))
                    ELSE Ran(h, NewApplier(B, ch), "insignificant")
           IN /\ config' = r.h.config
              /\ previousConfig' = r.h.previousConfig
              /\ connections' = r.h.connections
              /\ supervisors' = r.h.supervisors
              /\ appliers' = IF r.ended = "no" THEN Append(appliers, r.t) ELSE appliers
              /\ overlapped' = (overlapped \/ appliers # <<>>)
              /\ events' = EmittedOnChange(IsSignificant(ch))
              /\ lastOp' = HubOp("configChanged", "-", "-", FALSE, r.ended)
    /\ reloads' = reloads + 1
    /\ UNCHANGED <<hubPc, overlapRest>>

\* the operation a suspended call awaits settles and the call goes on
OSettle ==
    /\ \E i \in DOMAIN appliers :
           LET r == Resume(HubNow, appliers[i])
           IN /\ config' = r.h.config
              /\ previousConfig' = r.h.previousConfig
              /\ connections' = r.h.connections
              /\ supervisors' = r.h.supervisors
              /\ appliers' = Suspended(appliers, i, r)
              /\ lastOp' = HubOp("settle", appliers[i].wait.name, appliers[i].wait.kind,
                                 FALSE, r.ended)
    /\ UNCHANGED <<hubPc, overlapped, events, reloads, overlapRest>>

\* a connected supervisor of the map, with no disconnect() under way that has
\* removed its notification handlers, is told by its server that a list has
\* changed and emits toolsChanged; `sent` says whether the hub re-emits it
OListChanged ==
    /\ \E n \in DOMAIN connections :
           LET s == supervisors[connections[n]]
           IN /\ s.c.status = "connected"
              /\ \A i \in DOMAIN appliers : appliers[i].wait.id # connections[n]
              /\ lastOp' = Op("toolsChanged", n, "-", FALSE, "none", <<>>, s.forwards)
    /\ UNCHANGED <<config, previousConfig, connections, supervisors, appliers,
                   overlapped, hubPc, events, reloads, overlapRest>>

NextOverlap ==
    \/ OInitialize
    \/ OConfigChanged
    \/ OSettle
    \/ OListChanged

SpecOverlap == InitOverlap /\ [][NextOverlap]_vars

-----------------------------------------------------------------------------
(* SpecWatch: the watcher of the config file with its debounce timer, over  *)
(* discrete time.  A timeout that is due runs before time advances and       *)
(* before the next file event is delivered.                                  *)

\* #DEBOUNCE_DELAY (200 ms) in ticks of 100 ms
DebounceDelay == 2

\* bounds: file events in one run, and the ticks a run lasts
MaxFileEvents == 4
MaxTicks == 8

Timeout(left, held) == [left |-> left, held |-> held]

\* a pending timeout is due
Due(w) == \E i \in DOMAIN w.timers : w.timers[i].left = 0

\* clearTimeout(this.#debounceTimer): the timeout the field holds is
\* cancelled if it is still pending
ClearTimeout(timers) == SelectSeq(timers, LAMBDA t : ~t.held)

\* the file event continues the burst under way: it follows the previous
\* event within the delay
ContinuesBurst(w) == w.fileEvents > 0 /\ w.sinceEvent < DebounceDelay

\* the callback of fs.watch for a "change" event
OnFileChange(w) ==
    LET kept == IF w.handle THEN ClearTimeout(w.timers) ELSE w.timers
    IN [w EXCEPT !.timers = Append(kept, Timeout(DebounceDelay, TRUE)),
                 !.handle = TRUE,
                 !.sinceEvent = 0,
                 !.fileEvents = @ + 1,
                 !.burstReloads = IF ContinuesBurst(w) THEN @ ELSE 0,
                 !.early = IF ContinuesBurst(w) THEN (@ \/ w.burstReloads > 0) ELSE FALSE]

\* the callback of setTimeout, up to `await this.loadConfig()`
OnTimeout(w, i) ==
    [w EXCEPT !.timers = Without(@, i),
              !.loading = @ + 1,
              !.burstReloads = @ + 1]

\* the callback of setTimeout from the point where loadConfig() settles: the
\* emit or the logged error, then `finally { this.#debounceTimer = null }`
OnLoadSettled(w) ==
    [w EXCEPT !.loading = @ - 1,
              !.handle = FALSE,
              !.timers = [i \in DOMAIN @ |-> Timeout(@[i].left, FALSE)]]

\* one tick passes
Elapse(w) ==
    [w EXCEPT !.timers = [i \in DOMAIN @ |-> Timeout(@[i].left - 1, @[i].held)],
              !.sinceEvent = IF @ < DebounceDelay THEN @ + 1 ELSE @,
              !.clock = @ + 1]

watchRest == <<connVars, hubVars, calls, svcVars, envVars, fetchVars, overlapVars>>

InitWatch ==
    /\ conn = NewConnection([command |-> "cmd1", disabled |-> "absent"])
    /\ inflight = 0
    /\ lastOp = NoOp
    /\ HubIdle
    /\ SvcIdle
    /\ RestIdle

\* the file changes
WFileChange ==
    /\ ~Due(watch)
    /\ watch.fileEvents < MaxFileEvents
    /\ watch' = OnFileChange(watch)
    /\ lastOp' = Op("change", "-", "-", FALSE, "none", <<>>, FALSE)
    /\ UNCHANGED watchRest

\* a due timeout runs its callback
WTimeout ==
    /\ \E i \in DOMAIN watch.timers :
           /\ watch.timers[i].left = 0
           /\ watch' = OnTimeout(watch, i)
    /\ lastOp' = Op("reload", "-", "-", FALSE, "pending", <<>>, FALSE)
    /\ UNCHANGED watchRest

\* loadConfig() settles: configChanged is emitted, or the error is logged
WLoadSettled ==
    /\ watch.loading > 0
    /\ watch' = OnLoadSettled(watch)
    /\ \E ok \in BOOLEAN :
           lastOp' = Op("reload", "-", "-", FALSE,
                        IF ok THEN "none" ELSE "CONFIG_RELOAD_ERROR", <<>>, ok)
    /\ UNCHANGED watchRest

\* time passes
WTick ==
    /\ ~Due(watch)
    /\ watch.clock < MaxTicks
    /\ watch' = Elapse(watch)
    /\ lastOp' = Op("tick", "-", "-", FALSE, "none", <<>>, FALSE)
    /\ UNCHANGED watchRest

NextWatch ==
    \/ WFileChange
    \/ WTimeout
    \/ WLoadSettled
    \/ WTick

SpecWatch == InitWatch /\ [][NextWatch]_vars

-----------------------------------------------------------------------------
(* SpecDiff: #diffConfigs applied to a pair of server maps *)

\* the server names of SpecDiff: an ordinary one, and one that is also the
\* name of a property of Object.prototype
DiffNames == {"a", "constructor"}

\* the server maps #diffConfigs is given
DiffInputs == UNION {[D -> ServerConfigs] : D \in SUBSET DiffNames}

InitDiff ==
    /\ conn = NewConnection([command |-> "cmd1", disabled |-> "absent"])
    /\ inflight = 0
    /\ lastOp = NoOp
    /\ previousConfig \in DiffInputs
    /\ config \in DiffInputs
    /\ changes = NoChanges
    /\ connections = <<>>
    /\ hubPc = "off"
    /\ pending = {}
    /\ todo = {}
    /\ events = <<>>
    /\ broadcasts = <<>>
    /\ results = <<>>
    /\ reloads = 0
    /\ SvcIdle
    /\ RestIdle

\* #diffConfigs(this.#previousConfig?.mcpServers, newConfig.mcpServers)
DDiffConfigs ==
    /\ lastOp.op = "none"
    /\ changes' = DiffConfigs(previousConfig, config)
    /\ lastOp' = Op("diffConfigs", "-", "-", FALSE, "none", <<>>, FALSE)
    /\ UNCHANGED <<connVars, config, previousConfig, connections, hubPc, pending, todo,
                   events, broadcasts, results, reloads, calls, svcVars, envVars,
                   fetchVars, overlapVars, watch>>

NextDiff == DDiffConfigs

SpecDiff == InitDiff /\ [][NextDiff]_vars

-----------------------------------------------------------------------------
(* Claims about overlapping reloads, checked under SpecOverlap *)

\* every handleConfigUpdated() call has returned
AllApplied == hubPc = "ready" /\ appliers = <<>>

\* C32: if a second configChanged arrives while the hub is still applying an
\* earlier diff, then once both applications have settled the names in the
\* hub's map are the names of the most recently loaded config.
C32_OverlappingReloadsConverge ==
    overlapped /\ AllApplied => DOMAIN connections = DOMAIN config

\* the same without the overlap: reloads applied one after the other
C32_SerialReloadsConverge ==
    ~overlapped /\ AllApplied => DOMAIN connections = DOMAIN config

\* the step registers a client id that is registered, or unregisters one that
\* is not
Misregistration ==
    \/ lastOp'.op = "registerClient" /\ lastOp'.name \in clients
    \/ lastOp'.op = "unregisterClient" /\ lastOp'.name \notin clients

\* C39 (checked under SpecService): registering a client id that is already
\* registered, or unregistering one that is not registered, raises a
\* validation error and leaves the client set and the shutdown timer as they
\* were; an unregister of an unknown id while the set is empty does not arm
\* the shutdown timer.
C39_MisregistrationIsRejected ==
    [][ Misregistration =>
            /\ lastOp'.raised \in {"Client already registered", "Client not registered"}
            /\ clients' = clients
            /\ shutdownTimer' = shutdownTimer ]_vars

\* an unknown id has been unregistered while no client was registered, and
\* no timer is pending
C39_Witness ==
    /\ lastOp.op = "unregisterClient"
    /\ lastOp.raised = "Client not registered"
    /\ clients = {}
    /\ ~shutdownTimer

\* restartHub() has returned or thrown
RestartEnded == lastOp'.op \in {"restartDone", "restartFails"}

\* C38 (checked under SpecService): a hub restart always leaves the
\* restarting state: once restartHub() has ended the state is restarted, or
\* error when re-initialization failed; it does not remain restarting.
C38_RestartLeavesRestarting ==
    [][ RestartEnded => svcState' # "restarting" ]_vars

\* the diff of previousConfig and config has been computed
Diffed == lastOp.op = "diffConfigs"

\* C37 (checked under SpecDiff): for any old and new server maps the diff's
\* added, removed, modified and unchanged lists are pairwise disjoint; added,
\* modified and unchanged together are exactly the names of the new map,
\* removed is exactly the names of the old map that are not in the new map,
\* and details has an entry for exactly the names in modified.
C37_DiffPartitionsNames ==
    Diffed =>
        /\ changes.added \cap changes.removed = {}
        /\ changes.added \cap changes.modified = {}
        /\ changes.added \cap changes.unchanged = {}
        /\ changes.removed \cap changes.modified = {}
        /\ changes.removed \cap changes.unchanged = {}
        /\ changes.modified \cap changes.unchanged = {}
        /\ changes.added \cup changes.modified \cup changes.unchanged = DOMAIN config
        /\ changes.removed = DOMAIN previousConfig \ DOMAIN config
        /\ DOMAIN changes.details = changes.modified

\* the burst of file events is over: the delay has passed since its last
\* event and no timeout is pending
BurstOver == watch.fileEvents > 0 /\ watch.sinceEvent = DebounceDelay /\ watch.timers = <<>>

\* C36 (checked under SpecWatch): a burst of file-change events, each within
\* the stability window of the previous one, causes exactly one reload (and so
\* at most one configChanged), and that reload happens only after the last
\* event of the burst.
C36_BurstReloadsOnce ==
    /\ ~watch.early
    /\ BurstOver => watch.burstReloads = 1

\* C34: every toolsChanged, resourcesChanged or promptsChanged event emitted by
\* a supervisor that is in the hub's map is re-emitted by the hub, whether the
\* supervisor was created at initialize, created or replaced while a config
\* diff was applied, or started again with startServer after a stopServer.
C34_ListEventsAreForwarded ==
    [][ lastOp'.op = "toolsChanged" => lastOp'.sent ]_vars

\* a call is suspended in the second half of a reconnect, the connect() of
\* the replacement it created for name n
ConnectingReplacement(t, n) ==
    InLoop(t) = "modified" /\ t.wait.kind = "connect" /\ t.wait.name = n

\* a call is suspended in the first half of a reconnect, the disconnect() of
\* the supervisor it found in the map for name n
DisconnectingCurrent(t, n) ==
    InLoop(t) = "modified" /\ t.wait.kind = "disconnect" /\ t.wait.name = n

\* C35: when a modified server is reconnected, the disconnect of its current
\* supervisor has finished before the connect of its replacement begins; for
\* one server name the two never overlap.
C35_DisconnectPrecedesConnect ==
    \A n \in Names : \A i, j \in DOMAIN appliers :
        ~(ConnectingReplacement(appliers[i], n) /\ DisconnectingCurrent(appliers[j], n))

-----------------------------------------------------------------------------
(* Claims about the supervisor, checked under SpecConn *)

StopCompleted(op) == op.op = "stop" /\ op.raised = "none"

\* C1, as stated: after stop(true) completes the state is disabled and the
\* disabled flag is true; after stop(false) completes the state is
\* disconnected and the disabled flag has the value it had before the call,
\* from every state in which stop can be called.
C1_StopFalseDisconnects ==
    [][ StopCompleted(lastOp') =>
          IF lastOp'.disable THEN conn'.status = "disabled" /\ conn'.disabled
          ELSE conn'.status = "disconnected" /\ conn'.disabled = conn.disabled
      ]_vars

\* C1, amended: after stop(true) completes the state is disabled and the
\* disabled flag is true; after stop(false) completes the disabled flag has
\* the value it had before the call, and the state is disconnected when that
\* flag is false and disabled when it is true.
C1_StopPostcondition ==
    [][ StopCompleted(lastOp') =>
          IF lastOp'.disable THEN conn'.status = "disabled" /\ conn'.disabled
          ELSE /\ conn'.disabled = conn.disabled
               /\ conn'.status = IF conn.disabled THEN "disabled" ELSE "disconnected"
      ]_vars

\* stop(false) has completed on a supervisor that was disabled
C1_Witness ==
    /\ StopCompleted(lastOp)
    /\ ~lastOp.disable
    /\ conn.disabled
    /\ conn.status = "disabled"

ConnectEnded(op) ==
    /\ op.op \in {"connect", "start", "connectReturn"}
    /\ op.raised \notin {"none", "pending"}

\* C2: when connect() fails it raises ConnectionFailed with a wrapped message
\* and leaves the supervisor disconnected, with the failure message in its
\* error field, without client or transport, and without a retry under way.
C2_ConnectFailureIsClean ==
    [][ ConnectEnded(lastOp') =>
          /\ lastOp'.raised = "ConnectionError"
          /\ conn'.status = "disconnected"
          /\ conn'.error # NoError
          /\ lastOp'.msg = WrapConnect(conn'.error)
          /\ ~conn'.client
          /\ ~conn'.transport
          /\ inflight' <= inflight
      ]_vars

IsDispatch(op) == op.op \in {"callTool", "getPrompt", "readResource"}

\* the thing a dispatch names is in the last-discovered lists
Listed(c, op) ==
    IF op.op = "callTool" THEN op.name \in c.tools
    ELSE IF op.op = "getPrompt" THEN op.name \in c.prompts
    ELSE op.name \in c.resources
         \/ \E t \in c.resourceTemplates : RegexTest(TemplatePattern(t), op.name)

\* args is null (or left out), a mapping or a sequence
ArgsWellFormed(op) ==
    op.op = "readResource" \/ op.args \in {"null", "undefined", "object", "array"}

\* C3: a dispatch sends its request only when the state is connected, the
\* named thing is listed and args is null, a mapping or a sequence; otherwise
\* it raises, sends nothing and leaves the supervisor as it was.
C3_RequestOnlyWhenGuarded ==
    [][ IsDispatch(lastOp') =>
          LET allowed == /\ conn.status = "connected"
                         /\ Listed(conn, lastOp')
                         /\ ArgsWellFormed(lastOp')
          IN /\ lastOp'.sent => allowed
             /\ ~allowed => (~lastOp'.sent /\ lastOp'.raised # "none" /\ conn' = conn)
      ]_vars

\* C21: callTool and getPrompt that get as far as looking at args raise
\* Invalid arguments and send nothing for every args that is not null (or left
\* out), a mapping or a sequence: a number, a string, a boolean.
C21_BadArgsRaiseInvalidArguments ==
    [][ (/\ lastOp'.op \in {"callTool", "getPrompt"}
         /\ conn.client /\ conn.status = "connected"
         /\ Listed(conn, lastOp')
         /\ ~ArgsWellFormed(lastOp'))
        => (lastOp'.raised = "Invalid arguments" /\ ~lastOp'.sent) ]_vars

\* C11: stop(disable) never raises: also when closing the client or the
\* transport fails it returns, and the supervisor ends disabled or
\* disconnected, holding neither client nor transport.
C11_StopNeverRaises ==
    [][ lastOp'.op = "stop" =>
          /\ lastOp'.raised = "none"
          /\ conn'.status = (IF conn'.disabled THEN "disabled" ELSE "disconnected")
          /\ ~conn'.client
          /\ ~conn'.transport
      ]_vars

\* C12: in every state of the supervisor, startTime is set exactly when the
\* state is connected or disabled.
C12_StartTimeTracksState ==
    conn.startTime <=> conn.status \in {"connected", "disabled"}

\* C20, as stated: a dispatch made before any connect was attempted raises
\* NotInitialized; one made after a connect was attempted, while the state is
\* not connected, raises NotConnected.
C20_ErrorFollowsConnectHistory ==
    [][ IsDispatch(lastOp') =>
          /\ ~conn.attempted => lastOp'.raised = "Server not initialized"
          /\ (conn.attempted /\ conn.status # "connected")
                 => lastOp'.raised = "Server not connected"
      ]_vars

\* C20, amended: a dispatch made while the supervisor holds no protocol
\* client (before any connect, after a failed connect or a stop, or while
\* disabled) raises NotInitialized; one made while it holds a client and its
\* state is not connected (connecting, or disconnected by a transport close or
\* error) raises NotConnected.
C20_ErrorFollowsClient ==
    [][ IsDispatch(lastOp') =>
          /\ ~conn.client => lastOp'.raised = "Server not initialized"
          /\ (conn.client /\ conn.status # "connected")
                 => lastOp'.raised = "Server not connected"
      ]_vars

\* a dispatch after a connect that failed was answered with NotInitialized
C20_Witness ==
    /\ IsDispatch(lastOp)
    /\ lastOp.raised = "Server not initialized"
    /\ conn.attempted
    /\ conn.status = "disconnected"
    /\ conn.error # NoError

-----------------------------------------------------------------------------
(* Claims about the hub, checked under SpecHub *)

\* some earlier element of the log is ev
Preceded(log, i, ev) == \E j \in 1..(i - 1) : log[j] = ev

Count(log, ev) == Cardinality({i \in 1..Len(log) : log[i] = ev})

\* C4: for every diff, configChangeDetected comes before
\* importantConfigChanged and importantConfigChanged before
\* importantConfigChangeHandled, in the hub's events and in the broadcasts
\* made from them.
C4_EventOrder ==
    /\ \A i \in 1..Len(events) :
           /\ events[i] = "importantConfigChanged"
                  => Preceded(events, i, "configChangeDetected")
           /\ events[i] = "importantConfigChangeHandled"
                  => Preceded(events, i, "importantConfigChanged")
    /\ \A i \in 1..Len(broadcasts) :
           /\ broadcasts[i] = "SERVERS_UPDATING"
                  => Preceded(broadcasts, i, "CONFIG_CHANGED")
           /\ broadcasts[i] = "SERVERS_UPDATED"
                  => Preceded(broadcasts, i, "SERVERS_UPDATING")

\* a significant diff has been applied to its end
C4_Witness ==
    /\ events = <<"configChangeDetected", "importantConfigChanged",
                  "importantConfigChangeHandled">>
    /\ broadcasts = <<"CONFIG_CHANGED", "SERVERS_UPDATING", "SERVERS_UPDATED">>

\* handleConfigUpdated has returned for the last reload
DiffSettled == hubPc = "ready" /\ reloads > 0

\* C5: every significant diff leads to exactly one
\* importantConfigChangeHandled, whether its operations succeeded or failed.
C5_HandledExactlyOnce ==
    (DiffSettled /\ IsSignificant(changes))
        => Count(events, "importantConfigChangeHandled") = 1

\* C6: a failure on one name does not keep the other names of the diff from
\* being processed: every added name gets a supervisor and a connect attempt,
\* every removed name is dropped, every modified name is operated on.
C6_FailureDoesNotBlockOthers ==
    DiffSettled =>
        /\ \A n \in changes.added : n \in DOMAIN connections /\ n \in DOMAIN results
        /\ \A n \in changes.removed : n \notin DOMAIN connections
        /\ \A n \in changes.modified : n \in DOMAIN results

\* the names in the map of a hub initialized from cfg
InitializedNames(cfg) == DOMAIN [n \in DOMAIN cfg |-> NewConnection(cfg[n])]

\* C7: a hub initialized from A that applies the diff from A to B holds the
\* same server names as a hub initialized from B.
C7_DiffMatchesFreshStart ==
    DiffSettled => DOMAIN connections = InitializedNames(config)

\* the supervisor runs with the config the file now holds for its name
RunsWith(c, cfg) ==
    /\ c.cfgCommand = cfg.command
    /\ c.disabled = DisabledTruthy(cfg.disabled)
    /\ c.status = IF DisabledTruthy(cfg.disabled) THEN "disabled" ELSE "connected"

\* C8: a modified name whose only changed field is disabled has its supervisor
\* started or stopped; any other modified name is reconnected, so that its
\* supervisor runs with the new config.
C8_ModifiedRunsNewConfig ==
    (lastOp.op = "apply" /\ lastOp.args = "modified" /\ lastOp.raised = "none") =>
        LET n == lastOp.name
            c == connections[n]
        IN IF changes.details[n] = {"disabled"}
           THEN IF DisabledTruthy(config[n].disabled)
                THEN c.status = "disabled" /\ c.disabled
                ELSE c.status = "connected" /\ ~c.disabled
           ELSE RunsWith(c, config[n])

\* C9: a reload whose diff is empty makes the hub emit configChangeDetected
\* and nothing else, and touches no supervisor.
C9_InsignificantChangeIsInert ==
    [][ (lastOp'.op = "configChanged" /\ ~IsSignificant(changes')) =>
          /\ events' = <<"configChangeDetected">>
          /\ broadcasts' = <<"CONFIG_CHANGED">>
          /\ connections' = connections
          /\ todo' = NoChanges
          /\ hubPc' = "ready"
      ]_vars

\* the file was saved again with nothing significant changed, supervisors running
C9_Witness ==
    /\ lastOp.op = "configChanged"
    /\ ~IsSignificant(changes)
    /\ events = <<"configChangeDetected">>
    /\ \E n \in DOMAIN connections : connections[n].status = "connected"

\* C10: initialize() does not fail on a connect failure, and every configured
\* server gets its supervisor and its connect, whatever happened to the others.
C10_InitSurvivesFailures ==
    /\ hubPc # "failed"
    /\ (hubPc = "ready" /\ reloads = 0) =>
           /\ DOMAIN connections = DOMAIN config
           /\ DOMAIN results = DOMAIN config
           /\ \A n \in DOMAIN config :
                  (results[n] = "success" /\ ~DisabledTruthy(config[n].disabled))
                      => connections[n].status = "connected"

\* initialize() has returned with one server failed and another connected
C10_Witness ==
    /\ hubPc = "ready"
    /\ reloads = 0
    /\ \E n, m \in DOMAIN results :
           /\ results[n] = "error"
           /\ results[m] = "success"
           /\ connections[m].status = "connected"

-----------------------------------------------------------------------------
(* Claims about the hub's cleanup, checked under SpecShutdown *)

\* C13: on shutdown every supervisor of the map gets its disconnect, whatever
\* happens to the disconnect of another one: a disconnect that fails touches
\* no other supervisor and leaves the others to settle, every name has
\* settled when disconnectAll returns, and the map is then empty.
C13_DisconnectAllSettlesAll ==
    [][ /\ lastOp'.op = "disconnectTask" =>
              /\ pending' = pending \ {lastOp'.name}
              /\ \A m \in DOMAIN connections \ {lastOp'.name} :
                     connections'[m] = connections[m]
              /\ lastOp'.raised = "none" =>
                     /\ ~connections'[lastOp'.name].client
                     /\ ~connections'[lastOp'.name].transport
        /\ hubPc' = "stopped" =>
              /\ connections' = EmptyMap
              /\ hubPc = "stopping" => DOMAIN results = DOMAIN connections
      ]_vars

\* disconnectAll has returned after one disconnect failed and another succeeded
C13_Witness ==
    /\ hubPc = "stopped"
    /\ connections = EmptyMap
    /\ \E n, m \in DOMAIN results :
           results[n] = "failed" /\ results[m] = "disconnected"

-----------------------------------------------------------------------------
(* Claims about the config store, checked under SpecConfig *)

\* the file gives the entry a value for the key
Given(cfg, field) ==
    /\ field \in DOMAIN cfg
    /\ IF field \in {"args", "env", "headers", "dev"}
       THEN cfg[field].present
       ELSE cfg[field] # "absent"

\* the two entries differ in the key: one has it and the other has not, or
\* both have it with different contents
Differs(old, new, field) ==
    \/ Given(old, field) # Given(new, field)
    \/ Given(old, field) /\ Given(new, field) /\
         IF field \in {"args", "env", "headers", "dev"}
         THEN old[field].items # new[field].items
         ELSE old[field] # new[field]

SignificantFields == {"command", "args", "env", "disabled", "url", "headers", "dev", "name"}

\* the watcher has just accepted a changed file
ChangeAccepted(op) == op.op = "fileChanged" /\ op.raised = "none"

\* C14: a name that is in the previous snapshot and in the new config is in
\* modified exactly when one of the eight significant fields differs (the
\* structured ones by their contents), and is in unchanged otherwise; when
\* only other fields differ the modified set stays empty.
C14_ModifiedIffKeyFieldDiffers ==
    [][ ChangeAccepted(lastOp') =>
          /\ \A n \in DOMAIN previousConfig \cap DOMAIN config' :
                 LET significant == \E f \in SignificantFields :
                                        Differs(previousConfig[n], config'[n], f)
                 IN /\ n \in changes'.modified <=> significant
                    /\ n \in changes'.unchanged <=> ~significant
          /\ (\A n \in DOMAIN previousConfig \cap DOMAIN config' :
                  \A f \in SignificantFields : ~Differs(previousConfig[n], config'[n], f))
                 => changes'.modified = {}
      ]_vars

\* a file was accepted in which an entry changed its description only, its
\* args being a new array with the old contents
C14_Witness ==
    /\ ChangeAccepted(lastOp)
    /\ \E n \in changes.unchanged :
           /\ config[n].description = "d1"
           /\ config[n].args = ArrayOf(<<"x">>)
    /\ changes.modified = {}

\* the watcher has just met a file that loadConfig rejects
ChangeRejected(op) == op.op = "fileChanged" /\ op.raised # "none"

\* C15: a rejected load surfaces its error and changes nothing: the config,
\* the snapshot used for diffing and the supervisors keep their values, no
\* configChanged is emitted, the watcher goes on, and the next valid file is
\* diffed against the last accepted config.
C15_RejectedLoadChangesNothing ==
    [][ /\ ChangeRejected(lastOp') =>
              /\ config' = config
              /\ previousConfig' = previousConfig
              /\ connections' = connections
              /\ events' = <<>>
              /\ hubPc' = "watching"
        /\ (lastOp'.op = "loadConfig" /\ lastOp'.raised # "none") =>
              /\ config' = config
              /\ previousConfig' = previousConfig
              /\ events' = <<>>
        /\ ChangeAccepted(lastOp') =>
              /\ events' = <<"configChanged">>
              /\ changes' = DiffConfigs(config, config')
      ]_vars

\* the watcher has met a rejected file while the store held an accepted
\* config with a server in it, and goes on watching
C15_Witness ==
    /\ ChangeRejected(lastOp)
    /\ config # EmptyMap
    /\ previousConfig = config
    /\ events = <<>>
    /\ hubPc = "watching"

-----------------------------------------------------------------------------
(* Claims about the hub's endpoints, checked under SpecHubOps *)

EndpointOps == {"startServer", "stopServer", "refreshServer",
                "hubCallTool", "hubReadResource", "hubGetPrompt"}

\* the errors by which the hub says it has no such server
NotFoundErrors == {"Server not found", "Server connection not found"}

-----------------------------------------------------------------------------
(* Claims about the service manager, checked under SpecService *)

\* C17: the shutdown timer gets armed on the step that empties the client set
\* and on no other, a client that registers cancels it, and termination is
\* requested only by the timer firing over an empty set; so a pending timer
\* means an empty set, and no step requests termination with a client
\* registered.
C17_TimerFollowsClients ==
    [][/\ (clients # {} /\ clients' = {}) => shutdownTimer'
       /\ (~shutdownTimer /\ shutdownTimer') => (clients # {} /\ clients' = {})
       /\ (lastOp'.op = "registerClient" /\ lastOp'.raised = "none") => ~shutdownTimer'
       /\ (~sigterm /\ sigterm') =>
             (lastOp'.op = "timerFires" /\ shutdownTimer /\ clients = {} /\ clients' = {})
       /\ shutdownTimer' => clients' = {}]_vars

\* the timer has fired over an empty set and termination was requested
C17_Witness ==
    /\ sigterm
    /\ lastOp.op = "timerFires"
    /\ clients = {}
    /\ ~shutdownTimer
    /\ svcState = "stopping"

\* C18: with auto-shutdown not enabled no timer is armed and the client
\* manager requests no termination.
C18_NoTimerWithoutAutoShutdown == ~autoShutdown => (~shutdownTimer /\ ~sigterm)

StateRank(state) ==
    CASE state = "starting" -> 0
      [] state = "ready" -> 1
      [] state \in {"restarting", "restarted"} -> 2
      [] state = "stopping" -> 3
      [] state \in {"stopped", "error"} -> 4

\* C19: the hub state never moves backwards in the order starting, ready,
\* restarting/restarted, stopping, stopped or error; from stopping on it is
\* never ready, restarting or restarted again.
C19_StateMovesForward ==
    [][/\ StateRank(svcState') >= StateRank(svcState)
       /\ svcState \in {"stopping", "stopped"}
             => svcState' \notin {"ready", "restarting", "restarted"}]_vars

-----------------------------------------------------------------------------
(* Claims about resource templates, checked under SpecResources *)

\* the match the template language promises: a {name} placeholder stands for one
\* non-empty run of characters other than "/", any other character for itself
RECURSIVE LiteralMatch(_, _, _)
LiteralMatch(tpl, i, u) ==
    IF i > Len(tpl) THEN u = <<>>
    ELSE LET j == PlaceholderEnd(tpl, i)
         IN IF j # 0
            THEN \E k \in 1..Len(u) :
                     /\ \A m \in 1..k : u[m] # "/"
                     /\ LiteralMatch(tpl, j + 1, SubSeq(u, k + 1, Len(u)))
            ELSE /\ u # <<>>
                 /\ tpl[i] = Head(u)
                 /\ LiteralMatch(tpl, i + 1, Tail(u))

\* C22: readResource accepts a uri outside the resource list exactly when some
\* discovered template matches it with every placeholder standing for one
\* non-empty segment without "/" and every other character matching itself.
C22_TemplateMatchIsLiteral ==
    [][ (lastOp'.op = "readResource" /\ lastOp'.name \notin conn.resources)
        => (lastOp'.sent <=> \E t \in conn.resourceTemplates : LiteralMatch(t, 1, lastOp'.name)) ]_vars

-----------------------------------------------------------------------------
(* Claims about the placeholder resolver, checked under SpecResolver *)

\* the string asked to be resolved, when the config holds nothing but a command
AskedString == resolverIn.config.command

OnlyCommand == ~resolverIn.config.env.present /\ resolverIn.config.args = <<>>

\* the placeholders of a string, as text
PlaceholdersOf(str) ==
    {SubSeq(str, PlaceholderMatches(str)[k].from, PlaceholderMatches(str)[k].to) :
         k \in 1..Len(PlaceholderMatches(str))}

IsCmd(ph) == ph[2] = "cmd:"

\* no placeholder of the string has a placeholder inside it
Flat(str) == \A ph \in PlaceholdersOf(str) : \A i \in 2..Len(ph) : ph[i] # "${"

\* a placeholder that cannot be resolved: a name the context lacks, or a
\* command that is empty, fails or times out
Fails(ph, context) ==
    IF IsCmd(ph) THEN ~ExecuteCommand(ph).ok
    ELSE ~Defined(context, SubSeq(ph, 2, Len(ph) - 1))

\* what a placeholder stands for when it can be resolved
Meaning(ph, context) ==
    IF IsCmd(ph) THEN ExecuteCommand(ph).stdout ELSE context[ph[2]]

\* the string with every placeholder that can be resolved replaced by what it
\* stands for, and every other one left as it is written
RECURSIVE Substituted(_, _, _)
Substituted(str, ms, context) ==
    IF ms = <<>> THEN str
    ELSE LET m == ms[Len(ms)]
             ph == SubSeq(str, m.from, m.to)
             before == Substituted(SubSeq(str, 1, m.from - 1), SubSeq(ms, 1, Len(ms) - 1), context)
         IN before \o (IF Fails(ph, context) THEN ph ELSE Meaning(ph, context))
                   \o SubSeq(str, m.to + 1, Len(str))

FirstFailing(str, context) ==
    LET ms == PlaceholderMatches(str)
        k == CHOOSE i \in 1..Len(ms) :
                 /\ Fails(SubSeq(str, ms[i].from, ms[i].to), context)
                 /\ \A j \in 1..(i - 1) : ~Fails(SubSeq(str, ms[j].from, ms[j].to), context)
    IN SubSeq(str, ms[k].from, ms[k].to)

\* C23: a string with a placeholder that cannot be resolved (a name missing
\* from the context, a command that fails, times out or is empty): the strict
\* resolver raises the matching error and returns nothing; the lenient one
\* succeeds, leaves exactly the placeholders that cannot be resolved as they
\* are written and resolves every other one.
C23_StrictFailsLenientKeeps ==
    (/\ resolverOut.impl = "onePass"
     /\ OnlyCommand
     /\ Flat(AskedString)
     /\ \E ph \in PlaceholdersOf(AskedString) : Fails(ph, ProcessEnv))
    => IF resolverIn.options.strict
       THEN /\ resolverOut.raised =
                  (IF IsCmd(FirstFailing(AskedString, ProcessEnv))
                   THEN "cmd execution failed" ELSE "Variable not found")
            /\ resolverOut.config = NoConfig
       ELSE /\ resolverOut.raised = "none"
            /\ resolverOut.config.command =
                  Substituted(AskedString, PlaceholderMatches(AskedString), ProcessEnv)

\* the env entries asked to be resolved, and the env object returned
EnvAsked == resolverIn.config.env.entries
EnvReturned == resolverOut.config.env.entries

AskedKeys == {EnvAsked[i].key : i \in 1..Len(EnvAsked)}

ValueIn(entries, k) ==
    entries[CHOOSE i \in 1..Len(entries) : entries[i].key = k].value

HasKey(entries, k) == \E i \in 1..Len(entries) : entries[i].key = k

\* the names a value refers to with ${NAME}
RefsOf(value) ==
    IF value = JsNull THEN {}
    ELSE {ph[2] : ph \in {q \in PlaceholdersOf(value) : ~IsCmd(q) /\ Len(q) = 3}}

\* the entries an entry refers to, straight or through other entries
RefersTo(k, j) == HasKey(EnvAsked, k) /\ j \in AskedKeys /\ j \in RefsOf(ValueIn(EnvAsked, k))

RECURSIVE Reaches(_, _, _)
Reaches(k, j, n) ==
    \/ RefersTo(k, j)
    \/ n > 1 /\ \E m \in AskedKeys : RefersTo(k, m) /\ Reaches(m, j, n - 1)

\* the entries that lie on a cycle of references, none of them a name the
\* process environment sets
OnCycle == {k \in AskedKeys \ DOMAIN ProcessEnv : Reaches(k, k, MaxEntries)}

\* a resolver in strict mode; the resolver with several passes has none
StrictMode == resolverOut.impl = "onePass" /\ resolverIn.options.strict

FirstResolution == resolverOut.impl \in {"onePass", "multiPass"}

\* C24: an env object with entries that refer to one another in a cycle: the
\* resolution ends; in strict mode it fails, otherwise it succeeds and every
\* entry on the cycle is returned with the text it was written with.
C24_CycleKeepsText ==
    (FirstResolution /\ resolverIn.config.env.present /\ OnCycle # {})
    => IF StrictMode
       THEN resolverOut.raised # "none" /\ resolverOut.config = NoConfig
       ELSE /\ resolverOut.raised = "none"
            /\ \A k \in OnCycle :
                 /\ HasKey(EnvReturned, k)
                 /\ ValueIn(EnvReturned, k) = ValueIn(EnvAsked, k)

ReturnedKeys == {EnvReturned[i].key : i \in 1..Len(EnvReturned)}

\* C40: env resolution preserves the key set: every key of the input env map
\* is present in the resolved env map and no other key is added, also when a
\* dependency chain needs more passes than the pass limit.
C40_EnvKeysPreserved ==
    (resolverOut.impl = "multiPass" /\ resolverIn.config.env.present
        /\ resolverOut.raised = "none")
    => ReturnedKeys = AskedKeys

\* what the entries stand for after n rounds of replacing every reference by
\* what the entry or the process environment variable it names stands for
RECURSIVE Standing(_)
Standing(n) ==
    IF n = 0 THEN ProcessEnv
    ELSE [k \in AskedKeys |->
             IF NullOrEmpty(ValueIn(EnvAsked, k)) THEN FallbackOrEmpty(ProcessEnv, k)
             ELSE Substituted(ValueIn(EnvAsked, k), PlaceholderMatches(ValueIn(EnvAsked, k)),
                              Standing(n - 1))] @@ ProcessEnv

\* the longest chain of references that starts at an entry
RECURSIVE Depth(_, _)
Depth(k, n) ==
    IF n = 0 \/ RefsOf(ValueIn(EnvAsked, k)) \cap AskedKeys = {} THEN 1
    ELSE 1 + CHOOSE d \in 0..MaxEntries :
                 /\ \E j \in RefsOf(ValueIn(EnvAsked, k)) \cap AskedKeys : Depth(j, n - 1) = d
                 /\ \A j \in RefsOf(ValueIn(EnvAsked, k)) \cap AskedKeys : Depth(j, n - 1) <= d

\* every reference names an entry or a variable of the process environment,
\* and no entry refers back to itself
Acyclic ==
    /\ \A k \in AskedKeys : RefsOf(ValueIn(EnvAsked, k)) \subseteq AskedKeys \cup DOMAIN ProcessEnv
    /\ \A k \in AskedKeys : ~Reaches(k, k, MaxEntries)

\* C25: in an env object whose references are acyclic and no deeper than the
\* pass limit, an entry that refers to other entries is returned with every
\* reference replaced by what the entry it names resolves to, whatever the
\* order of the entries.
C25_ReferencesResolveInAnyOrder ==
    (/\ FirstResolution
     /\ resolverIn.config.env.present
     /\ Acyclic
     /\ \A k \in AskedKeys : Depth(k, MaxEntries) <= resolverIn.options.maxPasses)
    => \A k \in AskedKeys :
          RefsOf(ValueIn(EnvAsked, k)) \cap AskedKeys # {}
          => /\ resolverOut.raised = "none"
             /\ HasKey(EnvReturned, k)
             /\ ValueIn(EnvReturned, k) = Standing(MaxEntries)[k]

\* a record without placeholders of either syntax, ${...} or the legacy $NAME
NoPlaceholdersIn(cfg) ==
    /\ \A i \in 1..Len(cfg.env.entries) :
          \/ cfg.env.entries[i].value = JsNull
          \/ ~HasUnresolvedPlaceholders(cfg.env.entries[i].value)
    /\ \A i \in 1..Len(cfg.args) :
          ~IsLegacyArg(cfg.args[i]) /\ ~HasUnresolvedPlaceholders(cfg.args[i])
    /\ ~HasUnresolvedPlaceholders(cfg.command)

\* a record none of whose env values is null or empty
NoBlankEnv(cfg) ==
    \A i \in 1..Len(cfg.env.entries) :
        cfg.env.entries[i].value # JsNull /\ cfg.env.entries[i].value # <<>>

\* a step that is a resolution: of the record asked, or of its result
ResolutionStep == resolverOut'.impl # resolverOut.impl

\* the resolution succeeds, returns its argument and leaves the record asked
\* as it is
ReturnsItsArgument ==
    /\ resolverOut'.raised = "none"
    /\ resolverOut'.config = resolverIn'.config
    /\ resolverOut.impl = "none" => resolverIn' = resolverIn

\* C26, as stated: resolving a record without placeholders succeeds and
\* returns a record equal to the one given, which is left as it is; so does
\* resolving the result once more.
C26_NoPlaceholdersIsNoOp ==
    [][ (ResolutionStep /\ NoPlaceholdersIn(resolverIn'.config)) => ReturnsItsArgument ]_vars

\* C26, amended: the same for a record without placeholders none of whose env
\* values is null or empty.
C26_NoPlaceholdersNoBlanksIsNoOp ==
    [][ (ResolutionStep /\ NoPlaceholdersIn(resolverIn'.config) /\ NoBlankEnv(resolverIn'.config))
        => ReturnsItsArgument ]_vars

\* a record with an env entry and no placeholder has been resolved twice
C26_Witness ==
    /\ resolverOut.impl \in {"onePassAgain", "multiPassAgain"}
    /\ NoPlaceholdersIn(resolverIn.config)
    /\ NoBlankEnv(resolverIn.config)
    /\ Len(resolverIn.config.env.entries) >= 2
    /\ resolverOut.raised = "none"
    /\ resolverOut.config = resolverIn.config

\* ${cmd: cat ${D}/t}: a command with a variable of the context in its text
NestedCmd == Cmd(<<"cat">> \o Var("D") \o <<"/t">>)

\* C27: the text of a command placeholder is resolved before the command is
\* run: for ${cmd: cat ${D}/t}, with D = d in the context, the command run is
\* "cat d/t", and what it prints stands in place of the whole placeholder.
C27_CommandTextIsResolvedFirst ==
    \A before, after \in {<<>>, <<"x">>} :
        (/\ FirstResolution
         /\ OnlyCommand
         /\ AskedString = before \o NestedCmd \o after)
        => /\ resolverOut.raised = "none"
           /\ resolverOut.executed = << <<"cat", "d", "/t">> >>
           /\ resolverOut.config.command = before \o Exec(<<"cat", "d", "/t">>).stdout \o after

-----------------------------------------------------------------------------
(* A claim about the supervisor's state, checked under SpecConn *)

\* the supervisor holds a transport that has not reported its close
TransportOpen(c) == c.transport /\ c.hooks

\* C30: whenever the state is connected the supervisor holds a client and a
\* transport that is open, however the transport's close and error events
\* fall between the steps of connect().
C30_ConnectedHoldsOpenTransport ==
    conn.status = "connected" => conn.client /\ TransportOpen(conn)

\* a step in which connect(), called straight or through start(), has created
\* a client and a transport and is suspended at `await client.connect`
CreatesTransport == lastOp'.op \in {"connect", "start"} /\ lastOp'.raised = "pending"

\* C31: a supervisor owns at most one client and one open transport: connect()
\* or start() never creates a transport while the supervisor still holds an
\* open one, so that no open transport is left without an owner.
C31_OneOpenTransport ==
    [][ CreatesTransport => ~TransportOpen(conn) ]_vars

\* a callback of a transport runs that the supervisor no longer holds
LateTransportEvent == lastOp'.op \in {"onclose", "onerror"} /\ ~conn.transport

\* C33: a close or error event from a transport the supervisor has already
\* released or replaced does not change the supervisor's state, error or
\* startTime; in particular a supervisor stopped with stop(true) stays disabled.
C33_LateTransportEventIsIgnored ==
    [][ LateTransportEvent =>
            /\ conn'.status = conn.status
            /\ conn'.error = conn.error
            /\ conn'.startTime = conn.startTime ]_vars

-----------------------------------------------------------------------------
(* Claims about capability fetches, checked under SpecFetch *)

\* disconnect() has run to its end
DisconnectCompleted == conn.attempted /\ ~conn.client /\ ~closing

ListsEmpty(c) ==
    c.tools = {} /\ c.resources = {} /\ c.resourceTemplates = {} /\ c.prompts = {}

\* C28: a fetch that was in flight when disconnect() was called is discarded:
\* once disconnect() has completed the capability lists are empty and stay so,
\* and no call that settles from then on has toolsChanged, resourcesChanged or
\* promptsChanged emitted.
C28_FetchDiscardedAfterDisconnect ==
    /\ DisconnectCompleted => ListsEmpty(conn)
    /\ \A i \in 1..Len(emitted) : emitted[i].disconnected => emitted[i].event = "none"

\* the calls that have settled were started by connect() and by notifications
OnlyNotifications ==
    /\ \A i \in 1..Len(emitted) : emitted[i].origin \in NotificationKinds \cup {"connect"}
    /\ \E i \in 1..Len(emitted) : emitted[i].origin \in NotificationKinds

\* of the calls that have settled, the one started last
LatestSettled ==
    emitted[CHOOSE i \in 1..Len(emitted) : \A j \in 1..Len(emitted) : emitted[j].seq <= emitted[i].seq]

\* C29: list-changed notifications take effect in the order they arrive: the
\* stored lists are those fetched for the latest notification whose update has
\* settled, so that an update started for an earlier notification never
\* replaces them, and when all have settled they are those of the last
\* notification.
C29_NotificationsTakeEffectInOrder ==
    (conn.status = "connected" /\ conn.client /\ ~closing /\ OnlyNotifications)
    => conn.tools = LatestSettled.tools

=============================================================================
